---- MODULE Spec2Model ----
(***************************************************************************)
(* Model of the breadx request/reply engine: the synchronous driver        *)
(* (display/output.rs), the cooperative send state machine and the wait    *)
(* buffer (display/common.rs), over one connection to an X server.         *)
(*                                                                         *)
(* Bytes are naturals in 0..255, byte strings are sequences.  A panic is   *)
(* recorded in the variable "panic" and stops the client.                  *)
(***************************************************************************)
EXTENDS Integers, Sequences, FiniteSets, TLC

(***************************************************************************)
(* Bounds of the model.                                                    *)
(***************************************************************************)
\* number of requests the user submits in one behaviour
MaxSubmissions == 3
\* bytes a slow connection accepts in one poll_send_packet
SendChunk == 5
\* bytes a slow connection delivers in one poll_read_packet
ReadChunk == 20
\* frames the server sends to a wait buffer polled on its own
MaxFrames == 3
\* longest body of the requests encode_request is tried on, one excepted
MaxBody == 40
\* body of the one long request: its length in units of four bytes is the
\* first that does not fit the 16 bit length field
BigBody == 262144

(***************************************************************************)
(* Program constants.                                                      *)
(***************************************************************************)
\* width of an extension registry key
EXT_KEY_SIZE == 24

(***************************************************************************)
(* Byte helpers.                                                           *)
(***************************************************************************)
Min(a, b) == IF a < b THEN a ELSE b

Zeroes(n) == [i \in 1..n |-> 0]

\* s.split_off(n) keeps the tail; the head is what was sent
SplitOff(s, n) == SubSeq(s, n + 1, Len(s))

Take(s, n) == SubSeq(s, 1, n)

\* native (little) endian value of a byte string
RECURSIVE FromNeBytes(_)
FromNeBytes(bs) ==
    IF bs = <<>> THEN 0 ELSE bs[1] + 256 * FromNeBytes(Tail(bs))

\* n.to_ne_bytes() on w bytes
RECURSIVE ToNeBytes(_, _)
ToNeBytes(n, w) ==
    IF w = 0 THEN <<>> ELSE <<n % 256>> \o ToNeBytes(n \div 256, w - 1)

\* the 16 bit sequence that travels on the wire
ToU16(n) == n % 65536

\* bs with bs[i] replaced (1-based); no change when i is out of range
SetByte(bs, i, b) == IF i \in 1..Len(bs) THEN [bs EXCEPT ![i] = b] ELSE bs

\* bs with the bytes from position i on replaced by those of part
SetBytes(bs, i, part) ==
    [k \in 1..Len(bs) |->
        IF k >= i /\ k < i + Len(part) THEN part[k - i + 1] ELSE bs[k]]

PadTo4(n) == IF (n % 4) = 0 THEN n ELSE n + (4 - (n % 4))

\* F applied to the value of v, which is computed once
Bind(v, F(_)) == CHOOSE r \in {F(x) : x \in {v}} : TRUE

(***************************************************************************)
(* Extension names (ASCII) and the typed requests the user submits.        *)
(***************************************************************************)
NameGLX == <<71, 76, 88>>
NameNOSUCH == <<78, 79, 83, 85, 67, 72>>

\* Option<&str>: <<>> is None
NoExtension == <<>>

\* core request, no body
GetInputFocus ==
    [OPCODE |-> 43, EXTENSION |-> NoExtension, body |-> <<0, 0, 0, 0>>,
     size |-> 4, REPLY_EXPECTS_FDS |-> FALSE]

\* GLX.GetFBConfigs(screen)
GetFBConfigs ==
    [OPCODE |-> 21, EXTENSION |-> NameGLX,
     body |-> <<0, 0, 0, 0, 0, 0, 0, 0>>, size |-> 8,
     REPLY_EXPECTS_FDS |-> FALSE]

\* a request of an extension the server does not have
NoSuchRequest ==
    [OPCODE |-> 1, EXTENSION |-> NameNOSUCH, body |-> <<0, 0, 0, 0>>,
     size |-> 4, REPLY_EXPECTS_FDS |-> FALSE]

\* QueryExtension { name }: name length, two pad bytes, the padded name
QueryExtensionRequest(name) ==
    [OPCODE |-> 98, EXTENSION |-> NoExtension,
     body |-> <<0, 0, 0, 0>> \o ToNeBytes(Len(name), 2) \o <<0, 0>>
              \o name \o Zeroes(PadTo4(Len(name)) - Len(name)),
     size |-> 8 + PadTo4(Len(name)), REPLY_EXPECTS_FDS |-> FALSE]

UserRequests == {GetInputFocus, GetFBConfigs, NoSuchRequest}

(***************************************************************************)
(* State.                                                                  *)
(***************************************************************************)
VARIABLES
    driver,    \* "sync" or "async": the driver this display is used with
    display,   \* request_number, extensions, pending tables, send_buffer
    conn,      \* the connection: wire, inq, mode
    server,    \* the X server: bytes of the wire consumed, requests counted
    sync,      \* position of the blocking send_request_internal call
    panic,     \* "none" or the panic that stopped the client
    last,      \* outcome of the latest client operation
    hist       \* history of the behaviour (submissions, frames read, ...)

vars == <<driver, display, conn, server, sync, panic, last, hist>>

(***************************************************************************)
(* Wire framer (display/output.rs).                                        *)
(***************************************************************************)
\* the registry key of an extension name
string_as_array_bytes(s) ==
    IF Len(s) > EXT_KEY_SIZE
    THEN Take(s, 24)
    ELSE s \o Zeroes(EXT_KEY_SIZE - Len(s))

\* the workaround match without the extension name in its second arm
GlxFbconfigBug_AnyExtension(EXTENSION, OPCODE, bytes) ==
    LET word == IF Len(bytes) >= 36
                THEN <<FromNeBytes(SubSeq(bytes, 33, 36))>>
                ELSE <<>>
    IN  \/ EXTENSION = NameGLX /\ OPCODE = 17 /\ word = <<65540>>
        \/ OPCODE = 21

\* the GLX FbConfig workaround applies to this request
GlxFbconfigBug(EXTENSION, OPCODE, bytes) ==
    LET word == IF Len(bytes) >= 36
                THEN <<FromNeBytes(SubSeq(bytes, 33, 36))>>
                ELSE <<>>
    IN  \/ EXTENSION = NameGLX /\ OPCODE = 17 /\ word = <<65540>>
        \/ EXTENSION = NameGLX /\ OPCODE = 21

\* padding left out: the buffer is cut to the length as_bytes returned
PadRequest_NoPad(req) ==
    [bytes |-> req.body \o Zeroes(req.size - Len(req.body)),
     len |-> Len(req.body)]

\* the zeroed buffer of size() bytes, written by as_bytes and padded to a
\* multiple of four bytes
PadRequest(req) ==
    LET bytes0 == req.body \o Zeroes(req.size - Len(req.body))
        len0 == Len(req.body)
        remainder == len0 % 4
        extend_by == 4 - remainder
    IN  IF remainder # 0
        THEN [bytes |-> bytes0 \o Zeroes(extend_by), len |-> len0 + extend_by]
        ELSE [bytes |-> bytes0, len |-> len0]

\* bytes 2 and 3: the length in units of four bytes
WriteLength(bytes, len) ==
    LET x_len == len \div 4
        len_bytes == ToNeBytes(x_len, 8)
    IN  SetByte(SetByte(bytes, 3, len_bytes[1]), 4, len_bytes[2])

\* bytes 0 and 1 of a request
WriteOpcode(bytes, OPCODE, ext_opcode) ==
    IF ext_opcode = <<>>
    THEN SetByte(bytes, 1, OPCODE)
    ELSE SetByte(SetByte(bytes, 1, ext_opcode[1]), 2, OPCODE)

\* self.expect_reply(sequence, flags)
expect_reply(d, sequence, flags) ==
    [d EXCEPT !.pending_requests = (sequence :> flags) @@ @]

\* encode_request that forgets to advance the request counter
encode_request_NoIncrement(d, req, ext_opcode) ==
    LET sequence == d.request_number
        padded == PadRequest(req)
        bytes == Take(WriteLength(WriteOpcode(padded.bytes, req.OPCODE,
                                              ext_opcode), padded.len),
                      padded.len)
        flags == [expects_fds |-> req.REPLY_EXPECTS_FDS,
                  workaround |-> GlxFbconfigBug(req.EXTENSION, req.OPCODE, bytes)]
    IN  [d |-> expect_reply(d, sequence, flags),
         sequence |-> sequence, bytes |-> bytes]

\* encode_request that does not file the pending entry
encode_request_NoExpectReply(d, req, ext_opcode) ==
    LET sequence == d.request_number
        d1 == [d EXCEPT !.request_number = @ + 1]
        padded == PadRequest(req)
        bytes == Take(WriteLength(WriteOpcode(padded.bytes, req.OPCODE,
                                              ext_opcode), padded.len),
                      padded.len)
    IN  [d |-> d1, sequence |-> sequence, bytes |-> bytes]

\* Display::encode_request: the new display, the sequence and the bytes
encode_request(d, req, ext_opcode) ==
    LET sequence == d.request_number
        d1 == [d EXCEPT !.request_number = @ + 1]
        padded == PadRequest(req)
        bytes == Take(WriteLength(WriteOpcode(padded.bytes, req.OPCODE,
                                              ext_opcode), padded.len),
                      padded.len)
        flags == [expects_fds |-> req.REPLY_EXPECTS_FDS,
                  workaround |-> GlxFbconfigBug(req.EXTENSION, req.OPCODE, bytes)]
    IN  [d |-> expect_reply(d1, sequence, flags),
         sequence |-> sequence, bytes |-> bytes]

(***************************************************************************)
(* The connection.  Every byte on the wire is paired with the sequence     *)
(* number of the request it belongs to.                                    *)
(***************************************************************************)
\* AsyncConnection::poll_send_packet: sends a prefix of data
poll_send_packet(c, data, owner) ==
    IF c.mode = "broken"
    THEN [c |-> c, total_sent |-> 0, res |-> "Err"]
    ELSE LET k == IF c.mode = "open" THEN Len(data)
                  ELSE Min(Len(data), SendChunk)
         IN  [c |-> [c EXCEPT !.wire =
                        @ \o [i \in 1..k |-> <<owner, data[i]>>]],
              total_sent |-> k,
              res |-> IF k = Len(data) THEN "Ok" ELSE "Pending"]

\* Connection::send_packet: blocks until every byte is sent
send_packet(c, bytes, owner) ==
    IF c.mode = "broken"
    THEN [c |-> c, res |-> "Err"]
    ELSE [c |-> [c EXCEPT !.wire =
                    @ \o [i \in 1..Len(bytes) |-> <<owner, bytes[i]>>]],
          res |-> "Ok"]

\* AsyncConnection::poll_read_packet: fills a prefix of a slice of `need`
\* bytes, advances the cursor by what it read and appends the file
\* descriptors that came with the bytes
poll_read_packet(c, need) ==
    IF need = 0
    THEN [c |-> c, bytes |-> <<>>, fds |-> <<>>, res |-> "Ok"]
    ELSE IF c.mode = "broken"
    THEN [c |-> c, bytes |-> <<>>, fds |-> <<>>, res |-> "Err"]
    ELSE LET avail == IF c.mode = "open" THEN Len(c.inq)
                      ELSE Min(Len(c.inq), ReadChunk)
             k == Min(need, avail)
         IN  [c |-> [c EXCEPT !.inq = SplitOff(@, k),
                              !.fdq = IF k > 0 THEN <<>> ELSE @],
              bytes |-> Take(c.inq, k),
              fds |-> IF k > 0 THEN c.fdq ELSE <<>>,
              res |-> IF k = need THEN "Ok" ELSE "Pending"]

(***************************************************************************)
(* Request descriptors of the async driver.                                *)
(***************************************************************************)
\* RequestInfo::default()
DefaultRequestInfo ==
    [opcode |-> 0, extension |-> NoExtension, data |-> <<>>,
     sequence |-> <<>>, expects_fds |-> FALSE, workaround |-> FALSE]

\* RequestInfo::from_request: the encoded request without its opcode bytes
from_request(req) ==
    LET padded == PadRequest(req)
        data == Take(WriteLength(padded.bytes, padded.len), padded.len)
    IN  [opcode |-> req.OPCODE, extension |-> req.EXTENSION, data |-> data,
         sequence |-> <<>>, expects_fds |-> req.REPLY_EXPECTS_FDS,
         workaround |-> GlxFbconfigBug(req.EXTENSION, req.OPCODE, data)]

\* output::modify_for_opcode
modify_for_opcode(data, request_opcode, ext_opcode) ==
    WriteOpcode(data, request_opcode, ext_opcode)

\* output::preprocess_request: the request takes the next sequence number
preprocess_request(d, req) ==
    [d |-> [d EXCEPT !.request_number = @ + 1],
     req |-> [req EXCEPT !.sequence = <<d.request_number>>]]

\* output::finish_request: the sent request is filed as pending and its
\* 16 bit sequence is returned
finish_request(d, pereq) ==
    [d |-> expect_reply(d, pereq.sequence[1],
                        [expects_fds |-> pereq.expects_fds,
                         workaround |-> pereq.workaround]),
     req_id |-> ToU16(pereq.sequence[1])]

\* DisplayBase::get_extension_opcode: Option<u8>
get_extension_opcode(d, key) ==
    IF key \in DOMAIN d.extensions THEN <<d.extensions[key]>> ELSE <<>>

\* DisplayBase::set_extension_opcode
set_extension_opcode(d, key, opcode) ==
    [d EXCEPT !.extensions = (key :> opcode) @@ @]

(***************************************************************************)
(* InnerSendBuffer (display/common.rs).  The field "yielded" is history:   *)
(* it records that poll_send_request has returned Ready(Ok).               *)
(***************************************************************************)
\* Opcode::NotImplemented(opcode)
NotImplemented(opcode) == [implemented |-> FALSE, opcode |-> opcode]

\* Opcode::Implemented
Implemented == [implemented |-> TRUE, opcode |-> <<>>]

\* InnerSendBuffer::new_internal
new_internal(request, opcode) ==
    [request |-> request, complete |-> FALSE,
     impl_opcode |-> NotImplemented(opcode), yielded |-> FALSE]

\* the sequence number the bytes of a descriptor are sent under
Owner(request) == IF request.sequence = <<>> THEN 0 ELSE request.sequence[1]

\* the opcode is written into the payload on every poll
InnerPollSendRequest_SubstitutesAgain(isb, c) ==
    IF isb.complete
    THEN [isb |-> isb, c |-> c, res |-> "Panic", pr |-> DefaultRequestInfo,
          called |-> FALSE]
    ELSE LET data1 == modify_for_opcode(isb.request.data, isb.request.opcode,
                                        isb.impl_opcode.opcode)
         IN  Bind(poll_send_packet(c, data1, Owner(isb.request)),
                  LAMBDA snd :
             LET isb1 == [isb EXCEPT !.request.data =
                                         SplitOff(data1, snd.total_sent)]
             IN  IF snd.res = "Ok"
                 THEN [isb |-> [isb1 EXCEPT !.request = DefaultRequestInfo,
                                            !.yielded = TRUE],
                       c |-> snd.c, res |-> "Ok", pr |-> isb1.request,
                       called |-> TRUE]
                 ELSE [isb |-> isb1, c |-> snd.c, res |-> snd.res,
                       pr |-> DefaultRequestInfo, called |-> TRUE])

\* InnerSendBuffer::poll_send_request
InnerPollSendRequest(isb, c) ==
    IF isb.complete
    THEN [isb |-> isb, c |-> c, res |-> "Panic", pr |-> DefaultRequestInfo,
          called |-> FALSE]
    ELSE LET data1 == IF ~isb.impl_opcode.implemented
                      THEN modify_for_opcode(isb.request.data,
                                             isb.request.opcode,
                                             isb.impl_opcode.opcode)
                      ELSE isb.request.data
         IN  Bind(poll_send_packet(c, data1, Owner(isb.request)),
                  LAMBDA snd :
             LET isb1 == [isb EXCEPT !.impl_opcode = Implemented,
                                     !.request.data =
                                         SplitOff(data1, snd.total_sent)]
             IN  IF snd.res = "Ok"
                 THEN [isb |-> [isb1 EXCEPT !.request = DefaultRequestInfo,
                                            !.yielded = TRUE],
                       c |-> snd.c, res |-> "Ok", pr |-> isb1.request,
                       called |-> TRUE]
                 ELSE [isb |-> isb1, c |-> snd.c, res |-> snd.res,
                       pr |-> DefaultRequestInfo, called |-> TRUE])

\* a drop that looks at the completion flag instead of the unsent bytes
DropPanics_Incomplete(isb) == ~isb.complete

\* impl Drop for InnerSendBuffer: TRUE when the drop panics
DropPanics(isb) == Len(isb.request.data) # 0

(***************************************************************************)
(* Receive path: input helpers and WaitBuffer (display/common.rs).         *)
(***************************************************************************)
\* WaitBuffer::default()
DefaultWaitBuffer ==
    [buffer |-> Zeroes(32), fds |-> <<>>, first_read |-> TRUE, cursor |-> 0,
     complete |-> FALSE]

\* input::fix_glx_workaround: the length field of a tagged reply is doubled
fix_glx_workaround(workarounders, buf) ==
    IF buf[1] = 1 /\ FromNeBytes(SubSeq(buf, 3, 4)) \in workarounders
    THEN SetBytes(buf, 5, ToNeBytes(FromNeBytes(SubSeq(buf, 5, 8)) * 2, 4))
    ELSE buf

\* input::additional_bytes: Option<usize> of the first eight bytes
additional_bytes(bytes) ==
    IF bytes[1] = 1 \/ (bytes[1] % 128) = 35
    THEN LET ab == FromNeBytes(SubSeq(bytes, 5, 8)) * 4
         IN  IF ab = 0 THEN <<>> ELSE <<ab>>
    ELSE <<>>

\* a complete() that forgets to set the flag
complete_Forgets(wb) == wb

\* WaitBuffer::complete
complete(wb) == [wb EXCEPT !.complete = TRUE]

\* the whole buffer handed to the connection instead of the part after
\* the cursor
ReadInto_FromStart(wb, rd) ==
    [wb EXCEPT !.buffer = SetBytes(@, 1, rd.bytes),
               !.fds = @ \o rd.fds,
               !.cursor = @ + Len(rd.bytes)]

\* the wait buffer after conn.poll_read_packet(&mut buffer[cursor..], &mut
\* fds, cx, &mut cursor): the bytes read lie after the cursor, the file
\* descriptors are appended and the cursor has advanced
ReadInto(wb, rd) ==
    [wb EXCEPT !.buffer = SetBytes(@, wb.cursor + 1, rd.bytes),
               !.fds = @ \o rd.fds,
               !.cursor = @ + Len(rd.bytes)]

\* WaitBuffer::poll_wait.  "hdr" reports the first 32 bytes as they were
\* read and the additional-byte count computed from them.
RECURSIVE poll_wait(_, _, _)
poll_wait(wb, c, workarounders) ==
    IF wb.complete
    THEN [wb |-> wb, c |-> c, res |-> "Panic", data |-> <<>>, fds |-> <<>>,
          hdr |-> <<>>, reads |-> 0]
    ELSE
    Bind(poll_read_packet(c, Len(wb.buffer) - wb.cursor), LAMBDA rd :
    LET wb1 == ReadInto(wb, rd)
    IN  CASE rd.res = "Pending" ->
               [wb |-> wb1, c |-> rd.c, res |-> "Pending", data |-> <<>>,
                fds |-> <<>>, hdr |-> <<>>, reads |-> 1]
          [] rd.res = "Err" ->
               [wb |-> complete(wb1), c |-> rd.c,
                res |-> "Err", data |-> <<>>, fds |-> <<>>, hdr |-> <<>>,
                reads |-> 1]
          [] rd.res = "Ok" ->
               IF wb1.first_read
               THEN Bind(fix_glx_workaround(workarounders, wb1.buffer),
                         LAMBDA buf :
                    LET ab == additional_bytes(Take(buf, 8))
                        hdr == <<[raw |-> wb1.buffer,
                                  ab |-> IF ab = <<>> THEN 0 ELSE ab[1]]>>
                    IN  IF ab # <<>>
                        THEN [poll_wait([wb1 EXCEPT
                                            !.first_read = FALSE,
                                            !.buffer = buf \o Zeroes(ab[1])],
                                        rd.c, workarounders)
                                 EXCEPT !.hdr = hdr, !.reads = @ + 1]
                        ELSE [wb |-> complete([wb1 EXCEPT
                                                   !.first_read = FALSE,
                                                   !.buffer = <<>>,
                                                   !.fds = <<>>]),
                              c |-> rd.c, res |-> "Ok", data |-> buf,
                              fds |-> wb1.fds, hdr |-> hdr, reads |-> 1])
               ELSE [wb |-> complete([wb1 EXCEPT !.buffer = <<>>,
                                                 !.fds = <<>>]),
                     c |-> rd.c, res |-> "Ok", data |-> wb1.buffer,
                     fds |-> wb1.fds, hdr |-> <<>>, reads |-> 1])

\* sequences of the pending requests tagged with the GLX workaround
Workarounders(d) ==
    {ToU16(sq) : sq \in {x \in DOMAIN d.pending_requests :
                            d.pending_requests[x].workaround}}

\* input::process_bytes: a reply is stored under its sequence and its
\* pending request is retired; anything else is queued as an event
process_bytes(d, data, fds) ==
    IF data[1] = 1
    THEN LET sq == FromNeBytes(SubSeq(data, 3, 4))
             keep == {x \in DOMAIN d.pending_requests : ToU16(x) # sq}
         IN  [d EXCEPT !.pending_replies = (sq :> [data |-> data, fds |-> fds]) @@ @,
                       !.pending_requests = [x \in keep |-> @[x]]]
    ELSE [d EXCEPT !.event_queue = Append(@, data)]

\* DisplayBase::take_pending_reply: Option<PendingReply> and the new display
take_pending_reply(d, req_id) ==
    IF req_id \in DOMAIN d.pending_replies
    THEN [reply |-> <<d.pending_replies[req_id]>>,
          d |-> [d EXCEPT !.pending_replies =
                    [x \in DOMAIN @ \ {req_id} |-> @[x]]]]
    ELSE [reply |-> <<>>, d |-> d]

\* decode_reply::<QueryExtensionRequest>: <<>> when the bytes are no reply
decode_query_extension_reply(data) ==
    IF Len(data) >= 32 /\ data[1] = 1
    THEN <<[present |-> data[9] # 0, major_opcode |-> data[10]]>>
    ELSE <<>>

(***************************************************************************)
(* SendBuffer (display/common.rs).  One record shape for all variants;     *)
(* inner and wait_buffer are Options (<<>> is None).                       *)
(***************************************************************************)
SB(tag, req, inner, sub_seq, wait_buffer) ==
    [tag |-> tag, req |-> req, inner |-> inner, sub_seq |-> sub_seq,
     wait_buffer |-> wait_buffer]

Hole == SB("Hole", DefaultRequestInfo, <<>>, 0, <<>>)

OccupiedHole == SB("OccupiedHole", DefaultRequestInfo, <<>>, 0, <<>>)

Uninit(req) == SB("Uninit", req, <<>>, 0, <<>>)

Init_(inner) == SB("Init", DefaultRequestInfo, <<inner>>, 0, <<>>)

PollingForExt(req, inner) == SB("PollingForExt", req, <<inner>>, 0, <<>>)

\* a WaitingForExt built after the request was taken out of its place
WaitingForExt_TakesRequest(req, sub_seq, wait_buffer) ==
    SB("WaitingForExt", DefaultRequestInfo, <<>>, sub_seq, wait_buffer)

WaitingForExt(req, sub_seq, wait_buffer) ==
    SB("WaitingForExt", req, <<>>, sub_seq, wait_buffer)

\* what one client operation observed (history, reset by every operation)
NoObs ==
    [io_err |-> FALSE, drops |-> <<>>, hdrs |-> <<>>, repolled |-> FALSE,
     conn_called |-> FALSE, processed |-> <<>>, wait_polls |-> <<>>]

\* the drop of an InnerSendBuffer, observed
ObserveDrop(obs, isb) ==
    [obs EXCEPT !.drops = Append(@, [remaining |-> Len(isb.request.data),
                                     yielded |-> isb.yielded,
                                     panicked |-> DropPanics(isb)])]

\* a value of type SendBuffer goes out of scope: TRUE when that panics
DropSendBufferPanics(sb) == sb.inner # <<>> /\ DropPanics(sb.inner[1])

\* the state threaded through one poll
\*   d, c: display and connection;  sb: the send buffer polled
\*   res: "Continue", "Pending", "Ok", "Err" or "Panic";  err: the error
\*   pr: the descriptor returned with Ready(Ok)
\*   cur, obs: history
PollState(d, c, sb, cur) ==
    [d |-> d, c |-> c, sb |-> sb, res |-> "Continue",
     err |-> [kind |-> "none", name |-> <<>>], pr |-> DefaultRequestInfo,
     why |-> "none", cur |-> cur, obs |-> NoObs]

Panicked(st, why) == [st EXCEPT !.res = "Panic", !.why = why]

IoError == [kind |-> "Io", name |-> <<>>]

\* SendBuffer::dig_hole within a poll: the old value is dropped
dig_hole(st) ==
    LET st1 == [st EXCEPT !.sb = Hole,
                          !.obs = IF st.sb.inner # <<>>
                                  THEN ObserveDrop(@, st.sb.inner[1])
                                  ELSE @]
    IN  IF DropSendBufferPanics(st.sb)
        THEN Panicked(st1, "Interrupted send future while it was mid-transition!")
        ELSE st1

\* one call of WaitBuffer::poll_wait, observed: the completion flag before
\* and after, the result, the reads made of the connection, and the wait
\* buffer as it was polled and as the call left it (history)
ObserveWait(wb, r) ==
    [before |-> wb.complete, res |-> r.res, after |-> r.wb.complete,
     reads |-> r.reads, data |-> r.data, was |-> wb, now |-> r.wb]

\* the frame headers a wait reported, with whether the display has the
\* sequence tagged (history)
ObserveHdrs(d, hdr, by) ==
    [i \in 1..Len(hdr) |->
        [raw |-> hdr[i].raw, ab |-> hdr[i].ab,
         tagged |-> hdr[i].raw[1] = 1 /\
                    FromNeBytes(SubSeq(hdr[i].raw, 3, 4)) \in Workarounders(d),
         by |-> by]]

\* poll_init, after the loop: the request takes its sequence number and the
\* buffer becomes Init
PollInitFinish(st, req, opcode) ==
    LET pp == preprocess_request(st.d, req)
    IN  [st EXCEPT !.d = pp.d,
                   !.sb = Init_(new_internal(pp.req, opcode)),
                   !.res = "Ok",
                   !.cur.primary_seq = pp.req.sequence]

\* the workaround list poll_init hands to poll_wait
ExtWaitWorkarounders(d) == {}

\* arm Uninit that sends an extension request without asking the server
PollInitUninit_NoQuery(st, req) ==
    IF req.extension = NoExtension
    THEN PollInitFinish(st, req, <<>>)
    ELSE PollInitFinish(
             st, req,
             get_extension_opcode(st.d, string_as_array_bytes(req.extension)))

\* arm Uninit that does not look into the registry
PollInitUninit_AlwaysQuery(st, req) ==
    IF req.extension = NoExtension
    THEN PollInitFinish(st, req, <<>>)
    ELSE Bind(preprocess_request(
                  st.d, from_request(QueryExtensionRequest(req.extension))),
              LAMBDA pp :
         LET qer == [pp.req EXCEPT !.data =
                        modify_for_opcode(@, pp.req.opcode, <<>>)]
         IN  [st EXCEPT !.d = pp.d,
                        !.sb = PollingForExt(req, new_internal(qer, <<>>)),
                        !.cur.qe_seq = qer.sequence])

\* poll_init, arm Uninit(req): "Continue" when the loop goes round again
PollInitUninit(st, req) ==
    IF req.extension = NoExtension
    THEN PollInitFinish(st, req, <<>>)
    ELSE LET key == string_as_array_bytes(req.extension)
             cached == get_extension_opcode(st.d, key)
         IN  IF cached # <<>>
             THEN PollInitFinish(st, req, cached)
             ELSE Bind(preprocess_request(
                           st.d,
                           from_request(QueryExtensionRequest(req.extension))),
                       LAMBDA pp :
                  LET qer == [pp.req EXCEPT !.data =
                                 modify_for_opcode(@, pp.req.opcode, <<>>)]
                  IN  [st EXCEPT !.d = pp.d,
                                 !.sb = PollingForExt(req, new_internal(qer, <<>>)),
                                 !.cur.qe_seq = qer.sequence])

\* arm PollingForExt that, on Pending, puts the request back as Uninit
PollInitPollingForExt_PendingUninit(st, req, isb) ==
    Bind(InnerPollSendRequest(isb, st.c), LAMBDA r :
    LET st1 == [st EXCEPT !.c = r.c, !.sb = Hole,
                          !.obs.conn_called = @ \/ r.called,
                          !.obs.repolled = @ \/ isb.yielded]
    IN  CASE r.res = "Panic" ->
               Panicked(st1, "Attempted to poll buffer past completion")
          [] r.res = "Ok" ->
               LET fin == finish_request(st1.d, r.pr)
               IN  [st1 EXCEPT
                       !.d = fin.d,
                       !.sb = WaitingForExt(req, fin.req_id, <<>>),
                       !.cur.qe_sent = TRUE,
                       !.obs = ObserveDrop(@, r.isb)]
          [] r.res = "Err" ->
               [dig_hole(st1) EXCEPT !.res = "Err", !.err = IoError,
                                     !.obs.io_err = TRUE]
          [] r.res = "Pending" ->
               [st1 EXCEPT !.sb = Uninit(req), !.res = "Pending"])

\* poll_init, arm PollingForExt(req, sb)
PollInitPollingForExt(st, req, isb) ==
    Bind(InnerPollSendRequest(isb, st.c), LAMBDA r :
    LET st1 == [st EXCEPT !.c = r.c, !.sb = Hole,
                          !.obs.conn_called = @ \/ r.called,
                          !.obs.repolled = @ \/ isb.yielded]
    IN  CASE r.res = "Panic" ->
               Panicked(st1, "Attempted to poll buffer past completion")
          [] r.res = "Ok" ->
               LET fin == finish_request(st1.d, r.pr)
                   st2 == [st1 EXCEPT
                              !.d = fin.d,
                              !.sb = WaitingForExt(req, fin.req_id, <<>>),
                              !.cur.qe_sent = TRUE,
                              !.obs = ObserveDrop(@, r.isb)]
               IN  IF DropPanics(r.isb)
                   THEN Panicked(st2, "Interrupted send future while it was mid-transition!")
                   ELSE st2
          [] r.res = "Err" ->
               LET st2 == [dig_hole(st1) EXCEPT
                              !.res = "Err", !.err = IoError,
                              !.obs.io_err = TRUE,
                              !.obs = ObserveDrop(@, r.isb)]
               IN  IF DropPanics(r.isb)
                   THEN Panicked(st2, "Interrupted send future while it was mid-transition!")
                   ELSE st2
          [] r.res = "Pending" ->
               [st1 EXCEPT !.sb = PollingForExt(req, r.isb), !.res = "Pending"])

\* reply handling that stores the opcode before it looks at "present"
QueryExtensionReplied_InsertFirst(st, req, data) ==
    LET qer == decode_query_extension_reply(data)
        st1 == [st EXCEPT !.d = set_extension_opcode(
                                   @, string_as_array_bytes(req.extension),
                                   IF qer = <<>> THEN 0
                                   ELSE qer[1].major_opcode)]
    IN  IF qer = <<>>
        THEN [dig_hole(st) EXCEPT
                 !.res = "Err", !.err = [kind |-> "BadReply", name |-> <<>>]]
        ELSE IF ~qer[1].present
        THEN [dig_hole(st1) EXCEPT
                 !.res = "Err",
                 !.err = [kind |-> "ExtensionNotPresent",
                          name |-> req.extension]]
        ELSE PollInitFinish([st1 EXCEPT !.cur.qe_present = TRUE],
                            req, <<qer[1].major_opcode>>)

\* reply handling that empties the registry when the extension is absent
QueryExtensionReplied_ForgetsOnAbsent(st, req, data) ==
    LET qer == decode_query_extension_reply(data)
    IN  IF qer = <<>>
        THEN [dig_hole(st) EXCEPT
                 !.res = "Err", !.err = [kind |-> "BadReply", name |-> <<>>]]
        ELSE IF ~qer[1].present
        THEN [dig_hole(st) EXCEPT
                 !.d.extensions = <<>>,
                 !.res = "Err",
                 !.err = [kind |-> "ExtensionNotPresent",
                          name |-> req.extension]]
        ELSE PollInitFinish(
                 [st EXCEPT !.d = set_extension_opcode(
                                      @, string_as_array_bytes(req.extension),
                                      qer[1].major_opcode),
                            !.cur.qe_present = TRUE],
                 req, <<qer[1].major_opcode>>)

\* poll_init, arm WaitingForExt: the QueryExtension reply has been taken
QueryExtensionReplied(st, req, data) ==
    LET qer == decode_query_extension_reply(data)
    IN  IF qer = <<>>
        THEN [dig_hole(st) EXCEPT
                 !.res = "Err", !.err = [kind |-> "BadReply", name |-> <<>>]]
        ELSE IF ~qer[1].present
        THEN [dig_hole(st) EXCEPT
                 !.res = "Err",
                 !.err = [kind |-> "ExtensionNotPresent",
                          name |-> req.extension]]
        ELSE PollInitFinish(
                 [st EXCEPT !.d = set_extension_opcode(
                                @, string_as_array_bytes(req.extension),
                                qer[1].major_opcode),
                            !.cur.qe_present = TRUE],
                 req, <<qer[1].major_opcode>>)

\* a frame the wait buffer yielded is let go without the display seeing it
HandFrame_Drops(st, r) == st

\* poll_init, arm WaitingForExt, Ready(Ok(WaitBufferReturn { data, fds })):
\* the frame is given to input::process_bytes
HandFrame(st, r) ==
    [st EXCEPT !.d = process_bytes(@, r.data, r.fds),
               !.obs.processed = Append(@, r.data)]

\* a wait buffer that returned Ready is kept for the next read
Discard_Keeps(wb) == <<wb>>

\* poll_init, arm WaitingForExt, Ready(Ok(..)): wait_buffer = None, so that
\* get_or_insert_with(Default::default) makes a new one for the next read
Discard(wb) == <<>>

\* poll_init, arm WaitingForExt(req, req_id, wait_buffer): the inner loop
RECURSIVE PollInitWaitingForExt(_, _, _, _)
PollInitWaitingForExt(st, req, req_id, wait_buffer) ==
    Bind(take_pending_reply(st.d, req_id), LAMBDA tp :
    IF tp.reply # <<>>
    THEN QueryExtensionReplied(
             [st EXCEPT !.d = tp.d, !.cur.qe_reply = TRUE], req,
             tp.reply[1].data)
    ELSE LET wb == IF wait_buffer = <<>> THEN DefaultWaitBuffer
                   ELSE wait_buffer[1]
         IN  Bind(poll_wait(wb, st.c, ExtWaitWorkarounders(st.d)), LAMBDA r :
             LET st1 == [st EXCEPT
                            !.c = r.c,
                            !.obs.hdrs = @ \o ObserveHdrs(st.d, r.hdr,
                                                          "send_buffer"),
                            !.obs.conn_called = TRUE,
                            !.obs.wait_polls = Append(@, ObserveWait(wb, r))]
             IN  CASE r.res = "Panic" ->
                        Panicked(st1, "Attempted to poll wait buffer past completion")
                   [] r.res = "Pending" ->
                        [st1 EXCEPT !.sb = WaitingForExt(req, req_id, <<r.wb>>),
                                    !.res = "Pending"]
                   [] r.res = "Err" ->
                        [dig_hole(st1) EXCEPT !.res = "Err", !.err = IoError,
                                              !.obs.io_err = TRUE]
                   [] r.res = "Ok" ->
                        Bind(HandFrame(st1, r),
                             LAMBDA st2 :
                                 PollInitWaitingForExt(st2, req, req_id,
                                                       Discard(r.wb)))))

\* SendBuffer::poll_init on st.sb; the buffer is replaced by Hole first
RECURSIVE poll_init(_)
poll_init(st) ==
    LET this == st.sb
        st0 == [st EXCEPT !.sb = Hole]
    IN  CASE this.tag = "Hole" ->
               Panicked(st0, "Attempted to call poll_send_request_raw before calling begin_send_request_raw")
          [] this.tag = "OccupiedHole" ->
               Panicked(st0, "Locking mechanism failed; attempted to poll an occupied hole")
          [] this.tag = "Init" ->
               [st EXCEPT !.res = "Ok"]
          [] this.tag = "PollingForExt" ->
               Bind(PollInitPollingForExt(st0, this.req, this.inner[1]),
                    LAMBDA r : IF r.res = "Continue" THEN poll_init(r) ELSE r)
          [] this.tag = "WaitingForExt" ->
               PollInitWaitingForExt(st0, this.req, this.sub_seq,
                                     this.wait_buffer)
          [] this.tag = "Uninit" ->
               Bind(PollInitUninit(st0, this.req),
                    LAMBDA r : IF r.res = "Continue" THEN poll_init(r) ELSE r)

\* SendBuffer::poll_send_request on st.sb
RECURSIVE poll_send_request(_)
poll_send_request(st) ==
    IF st.sb.tag = "Init"
    THEN LET isb == st.sb.inner[1]
         IN  Bind(InnerPollSendRequest(isb, st.c), LAMBDA r :
             LET st1 == [st EXCEPT !.c = r.c, !.sb = Init_(r.isb),
                                   !.obs.conn_called = @ \/ r.called,
                                   !.obs.repolled = @ \/ isb.yielded]
             IN  CASE r.res = "Panic" ->
                        Panicked([st1 EXCEPT !.sb = Hole],
                                 "Attempted to poll buffer past completion")
                   [] r.res = "Ok" -> [st1 EXCEPT !.res = "Ok", !.pr = r.pr]
                   [] r.res = "Err" ->
                        [st1 EXCEPT !.res = "Err", !.err = IoError,
                                    !.obs.io_err = TRUE]
                   [] r.res = "Pending" -> [st1 EXCEPT !.res = "Pending"])
    ELSE Bind(poll_init(st), LAMBDA r :
         CASE r.res = "Panic" -> [r EXCEPT !.sb = Hole]
           [] r.res = "Pending" -> r
           [] r.res = "Err" -> dig_hole(r)
           [] r.res = "Ok" ->
                Bind([r EXCEPT !.res = "Continue"],
                     LAMBDA r1 : poll_send_request(r1)))

\* fill_hole that replaces whatever the buffer holds
fill_hole_Overwrite(sb, request_info) ==
    [sb |-> Uninit(request_info), panicked |-> FALSE]

\* fill_hole whose match forgets the Init variant
fill_hole_ForgetsInit(sb, request_info) ==
    IF sb.tag \in {"Uninit", "PollingForExt", "WaitingForExt", "OccupiedHole"}
    THEN [sb |-> sb, panicked |-> TRUE]
    ELSE [sb |-> Uninit(request_info), panicked |-> FALSE]

\* SendBuffer::fill_hole: the new buffer, or a panic that leaves it as it is
fill_hole(sb, request_info) ==
    IF sb.tag \in {"Init", "Uninit", "PollingForExt", "WaitingForExt",
                   "OccupiedHole"}
    THEN [sb |-> sb, panicked |-> TRUE]
    ELSE [sb |-> Uninit(request_info), panicked |-> FALSE]

(***************************************************************************)
(* History of submissions: what the behaviour did for the submission in    *)
(* progress (cur) and for the finished ones (log).                         *)
(***************************************************************************)
NewSubmission(d, req, n) ==
    [n |-> n, extension |-> req.EXTENSION, opcode |-> req.OPCODE,
     start_rn |-> d.request_number,
     cached |-> req.EXTENSION # NoExtension /\
                string_as_array_bytes(req.EXTENSION) \in DOMAIN d.extensions,
     qe_seq |-> <<>>, qe_sent |-> FALSE, qe_reply |-> FALSE,
     qe_present |-> FALSE, primary_seq |-> <<>>, res |-> "none",
     end_rn |-> 0]

NoSubmission ==
    [n |-> 0, extension |-> NoExtension, opcode |-> 0, start_rn |-> 0,
     cached |-> FALSE, qe_seq |-> <<>>, qe_sent |-> FALSE,
     qe_reply |-> FALSE, qe_present |-> FALSE, primary_seq |-> <<>>,
     res |-> "none", end_rn |-> 0]

(***************************************************************************)
(* Initial state: a display fresh from the connection setup.  The first    *)
(* request of an X11 connection has sequence number 1.                     *)
(***************************************************************************)
InitDisplay ==
    [request_number |-> 1, extensions |-> <<>>, pending_requests |-> <<>>,
     pending_replies |-> <<>>, event_queue |-> <<>>, send_buffer |-> Hole,
     wait_buffer |-> <<>>]

NoLast ==
    [op |-> "none", res |-> "none", err |-> [kind |-> "none", name |-> <<>>],
     before |-> "Hole", obs |-> NoObs]

Init ==
    /\ driver \in {"sync", "async"}
    /\ display = InitDisplay
    /\ conn = [wire |-> <<>>, inq |-> <<>>, fdq |-> <<>>, mode |-> "open"]
    /\ server = [pos |-> 0, seq |-> 0]
    /\ sync = [pc |-> "idle", req |-> GetInputFocus, qseq |-> 0]
    /\ panic = "none"
    /\ last = NoLast
    /\ hist = [subs |-> 0, cur |-> NoSubmission, log |-> <<>>]

(***************************************************************************)
(* The X server: it consumes whole requests from the wire in order and     *)
(* answers them.  It has the GLX extension under major opcode 149.         *)
(***************************************************************************)
ServerGlxOpcode == <<149>>

ReplyFrame(sq, length_field, payload, tail) ==
    <<1, 0>> \o ToNeBytes(ToU16(sq), 2) \o ToNeBytes(length_field, 4)
        \o payload \o Zeroes(24 - Len(payload)) \o tail

\* the frame the server sends for the request b with sequence sq
ServerAnswer(b, sq) ==
    CASE b[1] = 98 ->
           LET name == SubSeq(b, 9, 8 + FromNeBytes(SubSeq(b, 5, 6)))
           IN  IF name = NameGLX
               THEN ReplyFrame(sq, 0, <<1, ServerGlxOpcode[1], 0, 0>>, <<>>)
               ELSE ReplyFrame(sq, 0, <<0, 0, 0, 0>>, <<>>)
      [] b[1] = 43 -> ReplyFrame(sq, 0, <<0>>, <<>>)
      \* GetFBConfigs: the length field is half the length of the tail
      [] b[1] = ServerGlxOpcode[1] /\ b[2] = 21 ->
           ReplyFrame(sq, 1, <<1, 2>>, <<7, 7, 7, 7, 7, 7, 7, 7>>)
      \* anything else is answered with a BadRequest error
      [] OTHER -> <<0, 1>> \o ToNeBytes(ToU16(sq), 2) \o Zeroes(28)

WireBytes(c) == [i \in 1..Len(c.wire) |-> c.wire[i][2]]

\* the next whole request on the wire, <<>> when there is none yet
NextRequest(c, pos) ==
    LET rest == SplitOff(WireBytes(c), pos)
    IN  IF Len(rest) >= 4 /\ Len(rest) >= 4 * FromNeBytes(SubSeq(rest, 3, 4))
           /\ FromNeBytes(SubSeq(rest, 3, 4)) > 0
        THEN Take(rest, 4 * FromNeBytes(SubSeq(rest, 3, 4)))
        ELSE <<>>

ServerStep ==
    /\ NextRequest(conn, server.pos) # <<>>
    /\ LET b == NextRequest(conn, server.pos)
       IN  /\ server' = [pos |-> server.pos + Len(b), seq |-> server.seq + 1]
           /\ conn' = [conn EXCEPT !.inq = @ \o ServerAnswer(b, server.seq + 1)]
    /\ UNCHANGED <<driver, display, sync, panic, last, hist>>

(***************************************************************************)
(* The transport: it may become slow, fast again, or break for good.       *)
(***************************************************************************)
SetMode(m) ==
    /\ panic = "none"
    /\ conn.mode # "broken"
    /\ conn.mode # m
    /\ conn' = [conn EXCEPT !.mode = m]
    /\ UNCHANGED <<driver, display, server, sync, panic, last, hist>>

(***************************************************************************)
(* The async driver.                                                       *)
(***************************************************************************)
\* a frame is partly read into the display's wait buffer
ReadInProgress(d) == d.wait_buffer # <<>> /\ d.wait_buffer[1].cursor > 0

\* begin_send_request_raw(request): SendRequestRawFuture::run
FillHole(req) ==
    /\ driver = "async"
    /\ panic = "none"
    /\ hist.subs < MaxSubmissions
    /\ ~ReadInProgress(display)
    /\ \E f \in {fill_hole(display.send_buffer, from_request(req))} :
           /\ display' = [display EXCEPT !.send_buffer = f.sb]
           /\ panic' = IF f.panicked
                       THEN "Attempted to call begin_send_request_raw before the other request is finished sending"
                       ELSE "none"
           /\ hist' = IF f.panicked
                      THEN [hist EXCEPT !.subs = @ + 1]
                      ELSE [hist EXCEPT !.subs = @ + 1,
                                        !.cur = NewSubmission(display, req,
                                                              hist.subs + 1)]
           /\ last' = [NoLast EXCEPT !.op = "fill_hole",
                                     !.res = IF f.panicked THEN "Panic" ELSE "Ok",
                                     !.before = display.send_buffer.tag]
    /\ UNCHANGED <<driver, conn, server, sync>>

\* the submission in progress has ended with this result
EndSubmission(h, cur, res, d) ==
    IF cur.n # 0 /\ h.cur.res = "none" /\ res \in {"Ok", "Err", "Panic"}
    THEN LET fin == [cur EXCEPT !.res = res, !.end_rn = d.request_number]
         IN  [h EXCEPT !.cur = fin, !.log = Append(@, fin)]
    ELSE [h EXCEPT !.cur = cur]

\* poll_send_request_raw: the send buffer is polled and the caller files the
\* descriptor a Ready(Ok) yields
PollSendRequest ==
    /\ driver = "async"
    /\ panic = "none"
    /\ \E st \in {poll_send_request(
                     PollState(display, conn, display.send_buffer, hist.cur))} :
       LET d1 == IF st.res = "Ok" /\ st.pr.sequence # <<>>
                 THEN finish_request(st.d, st.pr).d
                 ELSE st.d
       IN  /\ display' = [d1 EXCEPT !.send_buffer = st.sb]
           /\ conn' = st.c
           /\ panic' = IF st.res = "Panic" THEN st.why ELSE "none"
           /\ hist' = EndSubmission(hist, st.cur, st.res, d1)
           /\ last' = [op |-> "poll", res |-> st.res, err |-> st.err,
                       before |-> display.send_buffer.tag, obs |-> st.obs]
    /\ UNCHANGED <<driver, server, sync>>

\* SendBuffer::dig_hole, called once a poll has returned Ready
DigHole ==
    /\ driver = "async"
    /\ panic = "none"
    /\ hist.cur.res # "none"
    /\ display.send_buffer.tag # "Hole"
    /\ \E st \in {dig_hole(PollState(display, conn, display.send_buffer,
                                      hist.cur))} :
           /\ display' = [display EXCEPT !.send_buffer =
                             IF st.res = "Panic" THEN @ ELSE st.sb]
           /\ panic' = IF st.res = "Panic" THEN st.why ELSE "none"
           /\ last' = [NoLast EXCEPT !.op = "dig_hole",
                                     !.res = IF st.res = "Panic" THEN "Panic"
                                             ELSE "Ok",
                                     !.before = display.send_buffer.tag,
                                     !.obs = st.obs]
    /\ UNCHANGED <<driver, conn, server, sync, hist>>

(***************************************************************************)
(* The async display's own wait: poll_wait with the display's wait buffer  *)
(* and its list of tagged sequences.                                       *)
(***************************************************************************)
PollWait ==
    /\ driver = "async"
    /\ panic = "none"
    /\ display.send_buffer.tag = "Hole"
    /\ \E wb \in {IF display.wait_buffer = <<>> THEN DefaultWaitBuffer
                    ELSE display.wait_buffer[1]} :
       \E r \in {poll_wait(wb, conn, Workarounders(display))} :
       LET obs == [NoObs EXCEPT !.hdrs = ObserveHdrs(display, r.hdr, "display"),
                                !.io_err = r.res = "Err",
                                !.conn_called = TRUE,
                                !.wait_polls = <<ObserveWait(wb, r)>>,
                                !.processed = IF r.res = "Ok" THEN <<r.data>>
                                              ELSE <<>>]
       IN  /\ display' =
                 CASE r.res = "Pending" -> [display EXCEPT !.wait_buffer = <<r.wb>>]
                   [] r.res = "Ok" ->
                        [process_bytes(display, r.data, r.fds)
                            EXCEPT !.wait_buffer = <<>>]
                   [] OTHER -> [display EXCEPT !.wait_buffer = <<>>]
           /\ conn' = r.c
           /\ panic' = IF r.res = "Panic"
                       THEN "Attempted to poll wait buffer past completion"
                       ELSE "none"
           /\ last' = [NoLast EXCEPT !.op = "poll_wait", !.res = r.res,
                                     !.err = IF r.res = "Err" THEN IoError
                                             ELSE NoLast.err,
                                     !.obs = obs]
    /\ UNCHANGED <<driver, server, sync, hist>>

(***************************************************************************)
(* The synchronous driver (display/output.rs).  A call that has to wait    *)
(* for the server is split at the wait: sync.pc = "query".                 *)
(***************************************************************************)
\* encode_request and send_packet of send_request_internal
\* res is "Ok" (with the sequence of the cookie) or "Err"
EncodeAndSend(d, c, req, ext_opcode) ==
    Bind(encode_request(d, req, ext_opcode), LAMBDA enc :
    Bind(send_packet(c, enc.bytes, enc.sequence), LAMBDA snd :
        [d |-> enc.d, c |-> snd.c, res |-> snd.res, sequence |-> enc.sequence]))

\* the blocking wait of resolve_request for the reply to sequence sq:
\* frames are read and processed until the reply is there; res is "Block"
\* while the connection has not delivered enough
RECURSIVE resolve_request(_, _, _, _)
resolve_request(d, c, sq, hdrs) ==
    Bind(take_pending_reply(d, ToU16(sq)), LAMBDA tp :
    IF tp.reply # <<>>
    THEN [d |-> tp.d, c |-> c, res |-> "Ok", data |-> tp.reply[1].data,
          hdrs |-> hdrs]
    ELSE Bind(poll_wait(DefaultWaitBuffer,
                        [c EXCEPT !.mode = IF @ = "broken" THEN @ ELSE "open"],
                        Workarounders(d)),
              LAMBDA r :
         CASE r.res = "Pending" ->
                [d |-> d, c |-> c, res |-> "Block", data |-> <<>>,
                 hdrs |-> hdrs]
           [] r.res = "Ok" ->
                Bind([d |-> process_bytes(d, r.data, r.fds),
                      c |-> [r.c EXCEPT !.mode = c.mode],
                      hdrs |-> hdrs \o ObserveHdrs(d, r.hdr, "sync")],
                     LAMBDA n : resolve_request(n.d, n.c, sq, n.hdrs))
           [] OTHER ->
                [d |-> d, c |-> c, res |-> "Err", data |-> <<>>,
                 hdrs |-> hdrs \o ObserveHdrs(d, r.hdr, "sync")]))

SyncResult(op, res, err, obs) ==
    [NoLast EXCEPT !.op = op, !.res = res, !.err = err, !.obs = obs]

\* send_request_internal up to its return or up to the wait for the
\* QueryExtension reply inside get_ext_opcode
SendRequestInternal(req) ==
    /\ driver = "sync"
    /\ panic = "none"
    /\ sync.pc = "idle"
    /\ hist.subs < MaxSubmissions
    /\ LET cur == NewSubmission(display, req, hist.subs + 1)
           sarr == string_as_array_bytes(req.EXTENSION)
           hit == req.EXTENSION = NoExtension \/ sarr \in DOMAIN display.extensions
           ext_opcode == IF req.EXTENSION = NoExtension THEN <<>>
                         ELSE <<display.extensions[sarr]>>
           h == [hist EXCEPT !.subs = @ + 1]
       IN  \E r \in {IF hit THEN EncodeAndSend(display, conn, req, ext_opcode)
                     ELSE EncodeAndSend(display, conn,
                                        QueryExtensionRequest(req.EXTENSION),
                                        <<>>)} :
           /\ display' = r.d
           /\ conn' = r.c
           /\ IF hit
              THEN /\ sync' = sync
                   /\ hist' = EndSubmission(
                                  [h EXCEPT !.cur = cur],
                                  [cur EXCEPT !.primary_seq = <<r.sequence>>],
                                  r.res, r.d)
                   /\ last' = SyncResult("send_request", r.res,
                                  IF r.res = "Err" THEN IoError ELSE NoLast.err,
                                  [NoObs EXCEPT !.io_err = r.res = "Err"])
              ELSE IF r.res = "Ok"
              THEN /\ sync' = [pc |-> "query", req |-> req, qseq |-> r.sequence]
                   /\ hist' = [h EXCEPT !.cur = [cur EXCEPT
                                   !.qe_seq = <<r.sequence>>, !.qe_sent = TRUE]]
                   /\ last' = SyncResult("send_request", "Blocked", NoLast.err,
                                         NoObs)
              ELSE /\ sync' = sync
                   /\ hist' = EndSubmission(
                                  [h EXCEPT !.cur = cur],
                                  [cur EXCEPT !.qe_seq = <<r.sequence>>],
                                  "Err", r.d)
                   /\ last' = SyncResult("send_request", "Err",
                                  [kind |-> "ExtensionNotPresent",
                                   name |-> req.EXTENSION],
                                  [NoObs EXCEPT !.io_err = TRUE])
    /\ UNCHANGED <<driver, server, panic>>

\* the rest of get_ext_opcode and of send_request_internal, once the
\* connection has delivered the QueryExtension reply (or has failed)
SendRequestResume ==
    /\ driver = "sync"
    /\ panic = "none"
    /\ sync.pc = "query"
    /\ \E rr \in {resolve_request(display, conn, sync.qseq, <<>>)} :
       LET req == sync.req
           sarr == string_as_array_bytes(req.EXTENSION)
           qer == decode_query_extension_reply(rr.data)
           good == rr.res = "Ok" /\ qer # <<>>
           code == qer[1].major_opcode
           d1 == [rr.d EXCEPT !.extensions = (sarr :> code) @@ @]
           r == EncodeAndSend(d1, rr.c, req, <<code>>)
           obs == [NoObs EXCEPT !.hdrs = rr.hdrs]
       IN  /\ rr.res # "Block"
           /\ sync' = [sync EXCEPT !.pc = "idle"]
           /\ IF good
              THEN /\ display' = r.d
                   /\ conn' = r.c
                   /\ hist' = EndSubmission(
                                  hist,
                                  [hist.cur EXCEPT !.qe_reply = TRUE,
                                       !.qe_present = qer[1].present,
                                       !.primary_seq = <<r.sequence>>],
                                  r.res, r.d)
                   /\ last' = SyncResult("send_request", r.res,
                                  IF r.res = "Err" THEN IoError ELSE NoLast.err,
                                  [obs EXCEPT !.io_err = r.res = "Err"])
              ELSE /\ display' = rr.d
                   /\ conn' = rr.c
                   /\ hist' = EndSubmission(
                                  hist,
                                  [hist.cur EXCEPT !.qe_reply = rr.res = "Ok"],
                                  "Err", rr.d)
                   /\ last' = SyncResult("send_request", "Err",
                                  [kind |-> "ExtensionNotPresent",
                                   name |-> req.EXTENSION],
                                  [obs EXCEPT !.io_err = rr.res = "Err"])
    /\ UNCHANGED <<driver, server, panic>>

(***************************************************************************)
(* WaitBuffer on its own: a caller that feeds frames to the connection and *)
(* polls one wait buffer without looking at its completion flag.           *)
(***************************************************************************)
\* frames the connection may deliver: a plain reply, a reply with eight
\* additional bytes and an event
WaitFrames ==
    { ReplyFrame(1, 0, <<5>>, <<>>),
      ReplyFrame(2, 2, <<6>>, <<7, 7, 7, 7, 7, 7, 7, 7>>),
      <<2, 0>> \o Zeroes(30) }

\* file descriptors the server passes over the connection
MaxFds == 2

\* the bytes of a frame the connection may deliver ahead of the rest: part
\* of the first 32, part of the additional bytes, or the whole frame
FrameCuts == {10, 36, 40}

InitWait ==
    /\ driver = "wait"
    /\ display = InitDisplay
    /\ conn = [wire |-> <<>>, inq |-> <<>>, fdq |-> <<>>, mode |-> "open"]
    /\ server = [pos |-> 0, seq |-> 0, rest |-> <<>>, fds |-> 0]
    /\ sync = [pc |-> "idle", req |-> GetInputFocus, qseq |-> 0]
    /\ panic = "none"
    /\ last = NoLast
    /\ hist = [subs |-> 0, cur |-> NoSubmission, log |-> <<>>,
               fed |-> <<>>, fed_fds |-> <<>>, yielded |-> <<>>,
               failed |-> FALSE]

\* the server sends a frame; the connection has all of it, or its first
\* bytes only
WaitFeed(f, cut) ==
    /\ panic = "none"
    /\ server.seq < MaxFrames
    /\ server.rest = <<>>
    /\ LET k == Min(cut, Len(f))
       IN  /\ server' = [server EXCEPT !.seq = @ + 1, !.rest = SplitOff(f, k)]
           /\ conn' = [conn EXCEPT !.inq = @ \o Take(f, k)]
           /\ hist' = [hist EXCEPT !.fed = @ \o Take(f, k)]
    /\ UNCHANGED <<driver, display, sync, panic, last>>

\* the rest of a frame arrives
WaitFlush ==
    /\ panic = "none"
    /\ server.rest # <<>>
    /\ server' = [server EXCEPT !.rest = <<>>]
    /\ conn' = [conn EXCEPT !.inq = @ \o server.rest]
    /\ hist' = [hist EXCEPT !.fed = @ \o server.rest]
    /\ UNCHANGED <<driver, display, sync, panic, last>>

\* the server passes a file descriptor; it reaches the client with the next
\* bytes read
WaitFeedFd ==
    /\ panic = "none"
    /\ server.fds < MaxFds
    /\ server' = [server EXCEPT !.fds = @ + 1]
    /\ conn' = [conn EXCEPT !.fdq = Append(@, server.fds + 1)]
    /\ hist' = [hist EXCEPT !.fed_fds = Append(@, server.fds + 1)]
    /\ UNCHANGED <<driver, display, sync, panic, last>>

\* WaitBuffer::poll_wait on the buffer the caller holds, whatever its flag
WaitPoll ==
    /\ panic = "none"
    /\ \E wb \in {IF display.wait_buffer = <<>> THEN DefaultWaitBuffer
                    ELSE display.wait_buffer[1]} :
       \E r \in {poll_wait(wb, conn, Workarounders(display))} :
           /\ display' = [display EXCEPT !.wait_buffer = <<r.wb>>]
           /\ conn' = r.c
           /\ panic' = IF r.res = "Panic"
                       THEN "Attempted to poll wait buffer past completion"
                       ELSE "none"
           /\ hist' = CASE r.res = "Ok" ->
                             [hist EXCEPT !.yielded =
                                 Append(@, [data |-> r.data, fds |-> r.fds])]
                        [] r.res = "Err" -> [hist EXCEPT !.failed = TRUE]
                        [] OTHER -> hist
           /\ last' = [NoLast EXCEPT
                          !.op = "poll_wait", !.res = r.res,
                          !.err = IF r.res = "Err" THEN IoError ELSE NoLast.err,
                          !.obs = [NoObs EXCEPT
                                      !.hdrs = ObserveHdrs(display, r.hdr, "wait"),
                                      !.io_err = r.res = "Err",
                                      !.conn_called = r.reads > 0,
                                      !.wait_polls = <<ObserveWait(wb, r)>>,
                                      !.processed = IF r.res = "Ok"
                                                    THEN <<r.data>> ELSE <<>>]]
    /\ UNCHANGED <<driver, server, sync>>

\* the caller lets go of a completed wait buffer and takes a new one
WaitNew ==
    /\ panic = "none"
    /\ display.wait_buffer # <<>>
    /\ display.wait_buffer[1].complete
    /\ display' = [display EXCEPT !.wait_buffer = <<>>]
    /\ last' = [NoLast EXCEPT !.op = "wait_new"]
    /\ UNCHANGED <<driver, conn, server, sync, panic, hist>>

NextWait ==
    \/ \E f \in WaitFrames, cut \in FrameCuts : WaitFeed(f, cut)
    \/ WaitFlush
    \/ WaitFeedFd
    \/ WaitPoll
    \/ WaitNew
    \/ \E m \in {"open", "slow", "broken"} : SetMode(m)

SpecWait == InitWait /\ [][NextWait]_vars

(***************************************************************************)
(* encode_request on its own: a request is drawn, then encoded once.       *)
(***************************************************************************)
\* what as_bytes writes for a request of len bytes: non-zero bytes, with
\* the word 0x10004 at bytes 32..36 if marked
TestBody(len, marked) ==
    [i \in 1..len |-> IF marked /\ i \in 33..36
                      THEN <<4, 0, 1, 0>>[i - 32]
                      ELSE 1 + (i % 7)]

\* a typed request: as_bytes writes len bytes, size() is len + slack
TestRequest(opcode, extension, len, slack, marked) ==
    [OPCODE |-> opcode, EXTENSION |-> extension,
     body |-> TestBody(len, marked), size |-> len + slack,
     REPLY_EXPECTS_FDS |-> FALSE]

\* the requests drawn, as (opcode, extension, len, slack, marked)
EncodeInputs ==
    ({1, 17, 21} \X {NoExtension, NameGLX, NameNOSUCH}
        \X ((4..8) \cup (33..MaxBody)) \X {0, 2} \X BOOLEAN)
    \cup {<<1, NoExtension, BigBody, 0, FALSE>>}

\* the major opcode send_request_internal passes for an extension
TestExtOpcode(extension) ==
    IF extension = NoExtension THEN <<>>
    ELSE IF extension = NameGLX THEN ServerGlxOpcode
    ELSE <<130>>

InitEncode ==
    /\ driver = "encode"
    /\ display = InitDisplay
    /\ conn = [wire |-> <<>>, inq |-> <<>>, fdq |-> <<>>, mode |-> "open"]
    /\ server = [pos |-> 0, seq |-> 0]
    /\ sync \in {[pc |-> "idle", req |-> in, qseq |-> 0] : in \in EncodeInputs}
    /\ panic = "none"
    /\ last = NoLast
    /\ hist = [subs |-> 0, cur |-> NoSubmission, log |-> <<>>]

\* Display::encode_request applied to the request drawn
EncodeRequest ==
    /\ driver = "encode"
    /\ sync.pc = "idle"
    /\ \E req \in {TestRequest(sync.req[1], sync.req[2], sync.req[3],
                                sync.req[4], sync.req[5])} :
       \E enc \in {encode_request(display, req, TestExtOpcode(req.EXTENSION))} :
           /\ display' = enc.d
           /\ sync' = [sync EXCEPT !.pc = "encoded"]
           /\ last' = [op |-> "encode_request", res |-> "Ok",
                       err |-> NoLast.err, before |-> "Hole", obs |-> NoObs,
                       sequence |-> enc.sequence, bytes |-> enc.bytes]
    /\ UNCHANGED <<driver, conn, server, panic, hist>>

NextEncode == EncodeRequest

SpecEncode == InitEncode /\ [][NextEncode]_vars

Next ==
    \/ \E req \in UserRequests : FillHole(req)
    \/ PollSendRequest
    \/ DigHole
    \/ PollWait
    \/ \E req \in UserRequests : SendRequestInternal(req)
    \/ SendRequestResume
    \/ ServerStep
    \/ \E m \in {"open", "slow", "broken"} : SetMode(m)

Spec == Init /\ [][Next]_vars

(***************************************************************************)
(* Properties.                                                             *)
(***************************************************************************)
\* the submissions of the behaviour, in order, the one in progress last
Submissions ==
    hist.log \o (IF hist.cur.n # 0 /\ hist.cur.res = "none"
                 THEN <<hist.cur>> ELSE <<>>)

\* the bytes on the wire that were sent under sequence number sq
OwnedBytes(sq) ==
    LET own == SelectSeq(conn.wire, LAMBDA x : x[1] = sq)
    IN  [i \in 1..Len(own) |-> own[i][2]]

\* the submission names an extension the registry did not have
Uncached(e) == e.extension # NoExtension /\ ~e.cached

\* the encoded QueryExtension request for a name
QueryExtensionBytes(name) ==
    WriteOpcode(from_request(QueryExtensionRequest(name)).data, 98, <<>>)

\* C1: in both drivers, a submission naming an uncached extension has its
\* QueryExtension sub-request numbered, sent completely and answered before
\* the user's request takes a sequence number or puts a byte on the wire;
\* the sub-request has the smaller number and a successful submission
\* consumes exactly two sequence numbers.
C1_QueryExtensionBeforeRequest ==
    \A i \in 1..Len(Submissions) :
        LET e == Submissions[i]
        IN  Uncached(e) =>
            /\ e.primary_seq # <<>> =>
                 /\ e.qe_seq = <<e.start_rn>>
                 /\ e.primary_seq = <<e.start_rn + 1>>
                 /\ e.qe_seq[1] < e.primary_seq[1]
                 /\ e.qe_sent /\ e.qe_reply
                 /\ OwnedBytes(e.qe_seq[1]) = QueryExtensionBytes(e.extension)
                 /\ server.seq >= e.qe_seq[1]
            /\ (e.primary_seq = <<>> /\ e.res = "none") =>
                 /\ display.request_number <= e.start_rn + 1
                 /\ \A k \in 1..Len(conn.wire) : conn.wire[k][1] <= e.start_rn
            /\ e.res = "Ok" => e.end_rn = e.start_rn + 2

\* a submission naming an uncached extension has completed
C1_Witness ==
    \E i \in 1..Len(hist.log) :
        /\ Uncached(hist.log[i])
        /\ hist.log[i].res = "Ok"
        /\ hist.log[i].end_rn = hist.log[i].start_rn + 2
        /\ OwnedBytes(hist.log[i].primary_seq[1]) # <<>>

\* an earlier submission obtained a QueryExtension reply with present = true
\* for the extension that submission i names
QuerySucceededBefore(i) ==
    \E j \in 1..(i - 1) :
        /\ Submissions[j].extension = Submissions[i].extension
        /\ Submissions[j].qe_reply
        /\ Submissions[j].qe_present

\* C2: once a QueryExtension for an extension name has succeeded, every
\* later submission naming that extension, in either driver, sends no
\* QueryExtension sub-request and consumes exactly one sequence number.
C2_CachedOpcodeNoQuery ==
    \A i \in 1..Len(Submissions) :
        LET e == Submissions[i]
        IN  (e.extension # NoExtension /\ QuerySucceededBefore(i)) =>
            /\ e.qe_seq = <<>>
            /\ e.primary_seq # <<>> =>
                 /\ e.primary_seq = <<e.start_rn>>
                 /\ OwnedBytes(e.start_rn) # <<>> =>
                        OwnedBytes(e.start_rn)[1] # 98
            /\ e.res = "Ok" => e.end_rn = e.start_rn + 1
            /\ display.request_number <= e.start_rn + 1
               \/ i < Len(Submissions)

\* a submission naming an extension queried before has completed
C2_Witness ==
    \E i \in 1..Len(hist.log) :
        /\ i <= Len(Submissions)
        /\ QuerySucceededBefore(i)
        /\ hist.log[i].res = "Ok"
        /\ OwnedBytes(hist.log[i].start_rn) # <<>>

\* C3: every wait buffer, that of the send state machine in WaitingForExt
\* included, computes the additional bytes of a reply as length_field * 8
\* when the reply's sequence is tagged with the GLX workaround and as
\* length_field * 4 otherwise.
C3_AdditionalBytes ==
    \A i \in 1..Len(last.obs.hdrs) :
        LET h == last.obs.hdrs[i]
            length_field == FromNeBytes(SubSeq(h.raw, 5, 8))
        IN  h.raw[1] = 1 =>
                h.ab = length_field * (IF h.tagged THEN 8 ELSE 4)

\* the sequence numbers handed out, in the order they were handed out
AssignedSequences ==
    LET RECURSIVE Flat(_)
        Flat(es) == IF es = <<>> THEN <<>>
                    ELSE es[1].qe_seq \o es[1].primary_seq \o Flat(Tail(es))
    IN  Flat(Submissions)

\* C4: every request takes the current value of the request counter and
\* the counter is incremented before a byte of the request is written: the
\* sequence numbers are 1, 2, 3, ... in the order the requests enter the
\* display, without repetition or gap, and every byte on the wire is sent
\* under a number already handed out, in increasing order.
C4_SequenceNumbers ==
    /\ AssignedSequences = [i \in 1..(display.request_number - 1) |-> i]
    /\ \A k \in 1..Len(conn.wire) :
           /\ conn.wire[k][1] >= 1
           /\ conn.wire[k][1] < display.request_number
           /\ k > 1 => conn.wire[k - 1][1] <= conn.wire[k][1]

\* three sequence numbers have been handed out and used on the wire
C4_Witness ==
    /\ display.request_number >= 4
    /\ \E k \in 1..Len(conn.wire) : conn.wire[k][1] = 3

\* the bytes on the wire sent under sq are one whole request
WholeRequest(sq) ==
    LET b == OwnedBytes(sq)
    IN  Len(b) >= 4 /\ Len(b) = 4 * FromNeBytes(SubSeq(b, 3, 4))

\* C5: sends are serialized: the bytes of each request, a QueryExtension
\* sub-request included, are one contiguous run on the wire, and a byte of
\* a request is written only after every earlier request is on the wire
\* whole; a submission is accepted only when the send buffer is a Hole.
C5_SerializedSends ==
    /\ \A i, k \in 1..Len(conn.wire) :
           (i < k /\ conn.wire[i][1] = conn.wire[k][1]) =>
               \A j \in i..k : conn.wire[j][1] = conn.wire[i][1]
    /\ \A k \in 1..Len(conn.wire) :
           conn.wire[k][1] # conn.wire[Len(conn.wire)][1] =>
               WholeRequest(conn.wire[k][1])
    /\ (last.op = "fill_hole" /\ last.res = "Ok") => last.before = "Hole"

\* a request was sent in several pieces and another request follows it
C5_Witness ==
    /\ driver = "async"
    /\ last.op = "poll" /\ last.res = "Pending"
    /\ display.send_buffer.tag = "Init"
    /\ Len(hist.log) >= 1
    /\ \E k \in 1..Len(conn.wire) : conn.wire[k][1] = display.request_number - 1
    /\ ~WholeRequest(display.request_number - 1)

FillHolePanic ==
    "Attempted to call begin_send_request_raw before the other request is finished sending"

DropPanic == "Interrupted send future while it was mid-transition!"

C7_ConnectionErrorLeavesHole ==
    (driver = "async" /\ last.op = "poll" /\ last.obs.io_err) =>
    /\ last.res = "Err"
    /\ panic = "none"
    /\ display.send_buffer.tag = "Hole"

\* C8: a poll of an inner send buffer that has already returned Ready(Ok)
\* panics and does not call into the connection.
C8_PollPastCompletionPanics ==
    (driver = "async" /\ last.op = "poll" /\ last.obs.repolled) =>
    /\ last.res = "Panic"
    /\ ~last.obs.conn_called

\* C9: the drop of an inner send buffer panics exactly when unsent bytes
\* remain in it; a buffer whose poll returned Ready(Ok) has none.
C9_DropPanicsIffUnsent ==
    /\ \A i \in 1..Len(last.obs.drops) :
           last.obs.drops[i].yielded => last.obs.drops[i].remaining = 0
    /\ last.op \in {"poll", "dig_hole"} =>
           ((\E i \in 1..Len(last.obs.drops) :
                 last.obs.drops[i].remaining > 0) <=> panic = DropPanic)

\* an inner send buffer that had sent part of its bytes was dropped, and
\* before that one that had sent all of them
C9_Witness ==
    /\ panic = DropPanic
    /\ \E i \in 1..Len(last.obs.drops) :
           /\ last.obs.drops[i].remaining > 0
           /\ last.obs.drops[i].remaining
                  < Len(QueryExtensionBytes(hist.cur.extension))
    /\ Len(hist.log) >= 2

\* C10: fill_hole moves a Hole to Uninit(req); in every other state
\* (OccupiedHole, which the display holds only during a poll, included) it
\* panics and leaves the send buffer as it was.
C10_FillHole ==
    [][(driver = "async" /\ hist'.subs = hist.subs + 1) =>
          /\ \A req \in UserRequests :
                 fill_hole(OccupiedHole, from_request(req))
                     = [sb |-> OccupiedHole, panicked |-> TRUE]
          /\ IF display.send_buffer.tag = "Hole"
             THEN /\ \E req \in UserRequests :
                         /\ req.OPCODE = hist'.cur.opcode
                         /\ req.EXTENSION = hist'.cur.extension
                         /\ display'.send_buffer = Uninit(from_request(req))
                  /\ panic' = "none"
             ELSE /\ panic' = FillHolePanic
                  /\ display' = display]_vars

\* fill_hole was called on a buffer that was not a Hole
C10_Witness ==
    /\ last.op = "fill_hole" /\ last.res = "Panic"
    /\ last.before = "WaitingForExt"
    /\ display.send_buffer.tag = "WaitingForExt"

\* C11: a wait buffer's completion flag is set exactly when poll_wait
\* returns Ready (with a frame or with an error) and stays unset when it
\* returns Pending; a poll of a wait buffer whose flag is set panics without
\* a read from the connection.
C11_WaitBufferCompletion ==
    \A i \in 1..Len(last.obs.wait_polls) :
        LET p == last.obs.wait_polls[i]
        IN  /\ p.before => (p.res = "Panic" /\ p.reads = 0)
            /\ ~p.before =>
                   /\ p.res \in {"Pending", "Ok", "Err"}
                   /\ p.reads >= 1
                   /\ p.after <=> p.res \in {"Ok", "Err"}
            /\ p.res = "Panic" =>
                   panic = "Attempted to poll wait buffer past completion"

\* a wait buffer completed by a connection error was polled again
C11_Witness ==
    /\ driver = "wait"
    /\ conn.mode = "broken"
    /\ last.op = "poll_wait" /\ last.res = "Panic"
    /\ last.obs.wait_polls[1].before
    /\ Len(conn.inq) > 0

\* C12: once the extension registry holds an opcode for a key, no step of
\* either driver changes or removes that entry.
C12_RegistryEntriesKept ==
    [][\A key \in DOMAIN display.extensions :
           /\ key \in DOMAIN display'.extensions
           /\ display'.extensions[key] = display.extensions[key]]_vars

\* the registry holds the opcode of GLX, and a later submission has failed
C12_Witness ==
    /\ string_as_array_bytes(NameGLX) \in DOMAIN display.extensions
    /\ display.extensions[string_as_array_bytes(NameGLX)] = ServerGlxOpcode[1]
    /\ \E i, j \in 1..Len(hist.log) :
           /\ i < j
           /\ hist.log[i].extension = NameGLX /\ hist.log[i].qe_present
           /\ hist.log[j].res = "Err"

\* the sequence numbers that own a byte on the wire and whose request the
\* server has not handled yet: no reply can have retired their entries
UnansweredOnWire ==
    {conn.wire[k][1] : k \in 1..Len(conn.wire)} \ (0..server.seq)

\* C13 (as stated): for every request, the QueryExtension sub-request of
\* the async driver included, the pending-request entry of its sequence is
\* in the display's table before its first byte is handed to the connection.
C13_PendingBeforeFirstByte ==
    \A sq \in UnansweredOnWire : sq \in DOMAIN display.pending_requests

\* C13 (amended): the sync driver files the pending entry before the first
\* byte is handed to the connection; the async driver files it, for the
\* QueryExtension sub-request and for the primary request alike, in the
\* poll that sends the last byte, and not before.
C13_PendingEntryFiling ==
    \A sq \in UnansweredOnWire :
        /\ driver = "sync" => sq \in DOMAIN display.pending_requests
        /\ driver = "async" =>
               (sq \in DOMAIN display.pending_requests <=> WholeRequest(sq))

\* the async driver has sent a QueryExtension in several polls and filed it
\* with the last of them
C13_Witness ==
    /\ driver = "async"
    /\ last.op = "poll" /\ last.res = "Pending"
    /\ last.before = "PollingForExt"
    /\ display.send_buffer.tag = "WaitingForExt"
    /\ hist.cur.qe_seq # <<>>
    /\ hist.cur.qe_seq[1] \in UnansweredOnWire
    /\ hist.cur.qe_seq[1] \in DOMAIN display.pending_requests

\* position of a send buffer state on the path of a submission
Rank(tag) ==
    CASE tag = "Hole" -> 0
      [] tag = "OccupiedHole" -> 0
      [] tag = "Uninit" -> 1
      [] tag = "PollingForExt" -> 2
      [] tag = "WaitingForExt" -> 3
      [] tag = "Init" -> 4

\* C14: per submission the send buffer only moves forward along
\* Hole -> Uninit -> [PollingForExt -> WaitingForExt ->] Init -> Hole: a
\* step leaves it where it is, moves it to a later state of the path, or
\* ends the submission in Hole; it leaves Hole only for Uninit and only by
\* a new submission; a poll that leaves it in PollingForExt or
\* WaitingForExt returned Pending, and no poll leaves it in Uninit.
C14_ForwardOnly ==
    [][LET tag == display.send_buffer.tag
           tag2 == display'.send_buffer.tag
       IN  /\ \/ tag2 = tag
              \/ tag2 = "Hole"
              \/ tag # "Hole" /\ Rank(tag) < Rank(tag2)
              \/ tag = "Hole" /\ tag2 = "Uninit"
                     /\ hist'.subs = hist.subs + 1
                     /\ last'.op = "fill_hole"
           /\ (last'.op = "poll" /\ last' # last) =>
                 /\ tag2 # "Uninit"
                 /\ tag2 \in {"PollingForExt", "WaitingForExt"} =>
                        last'.res = "Pending"]_vars

\* a submission has gone through every state of the path, staying in
\* PollingForExt and in WaitingForExt across Pending polls
C14_Witness ==
    /\ driver = "async"
    /\ display.send_buffer.tag = "Init"
    /\ last.op = "poll" /\ last.before = "WaitingForExt"
    /\ hist.cur.qe_present
    /\ conn.mode = "slow"

\* the X server handles every whole request on the wire it has not handled
RECURSIVE ServerDrain(_, _)
ServerDrain(c, srv) ==
    Bind(NextRequest(c, srv.pos), LAMBDA b :
        IF b = <<>>
        THEN [c |-> c, srv |-> srv]
        ELSE ServerDrain(
                 [c EXCEPT !.inq = @ \o ServerAnswer(b, srv.seq + 1)],
                 [pos |-> srv.pos + Len(b), seq |-> srv.seq + 1]))

\* one whole call of send_request_internal over a working connection, the
\* server answering at once: get_ext_opcode, encode_request, send_packet
SyncSubmit(s, req) ==
    LET sarr == string_as_array_bytes(req.EXTENSION)
    IN  IF req.EXTENSION = NoExtension \/ sarr \in DOMAIN s.d.extensions
        THEN Bind(EncodeAndSend(s.d, s.c, req,
                                IF req.EXTENSION = NoExtension THEN <<>>
                                ELSE <<s.d.extensions[sarr]>>),
                  LAMBDA r : [s EXCEPT !.d = r.d, !.c = r.c,
                                       !.results = Append(@, "Ok")])
        ELSE Bind(EncodeAndSend(s.d, s.c,
                                QueryExtensionRequest(req.EXTENSION), <<>>),
                  LAMBDA q :
             Bind(ServerDrain(q.c, s.srv), LAMBDA sd :
             Bind(resolve_request(q.d, sd.c, q.sequence, <<>>), LAMBDA rr :
             LET qer == decode_query_extension_reply(rr.data)
             IN  IF rr.res = "Ok" /\ qer # <<>>
                 THEN Bind(EncodeAndSend(
                               [rr.d EXCEPT !.extensions =
                                   (sarr :> qer[1].major_opcode) @@ @],
                               rr.c, req, <<qer[1].major_opcode>>),
                           LAMBDA r : [d |-> r.d, c |-> r.c, srv |-> sd.srv,
                                       results |-> Append(s.results, "Ok")])
                 ELSE [d |-> rr.d, c |-> rr.c, srv |-> sd.srv,
                       results |-> Append(s.results, "Err")])))

\* the synchronous driver run on a list of requests from a fresh display
RECURSIVE SyncRun(_)
SyncRun(reqs) ==
    IF reqs = <<>>
    THEN [d |-> InitDisplay,
          c |-> [wire |-> <<>>, inq |-> <<>>, fdq |-> <<>>, mode |-> "open"],
          srv |-> [pos |-> 0, seq |-> 0], results |-> <<>>]
    ELSE Bind(SyncRun(SubSeq(reqs, 1, Len(reqs) - 1)),
              LAMBDA s : SyncSubmit(s, reqs[Len(reqs)]))

\* the request of a submission in the history
RequestOf(e) ==
    CHOOSE req \in UserRequests :
        req.OPCODE = e.opcode /\ req.EXTENSION = e.extension

\* every submission made so far has returned and the connection has not
\* failed
Quiescent ==
    /\ panic = "none"
    /\ conn.mode # "broken"
    /\ sync.pc = "idle"
    /\ hist.cur.n # 0 => hist.cur.res # "none"
    /\ Len(hist.log) = hist.subs

\* C15: for the same submissions and the same server answers the
\* synchronous driver and the async send state machine put the same bytes
\* on the wire under the same sequence numbers, return the same results and
\* leave the same extension registry: whichever driver ran, the outcome is
\* the one of send_request_internal called on the same requests.
C15_DriversEquivalent ==
    Quiescent =>
        LET ref == SyncRun([i \in 1..Len(hist.log) |-> RequestOf(hist.log[i])])
        IN  /\ conn.wire = ref.c.wire
            /\ display.request_number = ref.d.request_number
            /\ display.extensions = ref.d.extensions
            /\ [i \in 1..Len(hist.log) |-> hist.log[i].res] = ref.results

\* the request encode_request was applied to
Encoded == TestRequest(sync.req[1], sync.req[2], sync.req[3], sync.req[4],
                       sync.req[5])

\* C16: the buffer encode_request yields is as long as the written body
\* rounded up to the next multiple of four, its padding bytes are zero,
\* its byte 0 is the extension's major opcode if an extension is used and
\* OPCODE otherwise, its byte 1 is OPCODE if an extension is used and what
\* the body wrote otherwise, and bytes 4.. of the body are unchanged.
C16_EncodedLayout ==
    last.op = "encode_request" =>
        LET req == Encoded
            len == Len(req.body)
            bytes == last.bytes
        IN  /\ Len(bytes) % 4 = 0
            /\ Len(bytes) >= len /\ Len(bytes) < len + 4
            /\ SubSeq(bytes, len + 1, Len(bytes)) = Zeroes(Len(bytes) - len)
            /\ SubSeq(bytes, 5, len) = SubSeq(req.body, 5, len)
            /\ IF req.EXTENSION = NoExtension
               THEN bytes[1] = req.OPCODE /\ bytes[2] = req.body[2]
               ELSE /\ bytes[1] = TestExtOpcode(req.EXTENSION)[1]
                    /\ bytes[2] = req.OPCODE

\* a request of an extension whose body is no multiple of four bytes and
\* shorter than size() has been encoded
C16_Witness ==
    /\ last.op = "encode_request"
    /\ Encoded.EXTENSION = NameGLX
    /\ Len(Encoded.body) = 6 /\ Encoded.size = 8
    /\ Len(last.bytes) = 8
    /\ last.bytes[1] = 149 /\ last.bytes[2] = Encoded.OPCODE

\* C17: bytes 2-3 of every encoded request, of any size, hold the length of
\* the whole request in units of four bytes: four times the 16 bit field is
\* the length of the emitted buffer.
C17_LengthField ==
    last.op = "encode_request" =>
        4 * FromNeBytes(SubSeq(last.bytes, 3, 4)) = Len(last.bytes)

\* C18: encode_request tags the pending entry of the request with the GLX
\* FbConfig workaround exactly when the extension is GLX and the opcode is
\* 21, or is 17 with bytes 32..36 of the encoded request reading 0x10004.
C18_GlxWorkaroundTag ==
    last.op = "encode_request" =>
        LET req == Encoded
            bytes == last.bytes
        IN  /\ last.sequence \in DOMAIN display.pending_requests
            /\ display.pending_requests[last.sequence].workaround <=>
                   /\ req.EXTENSION = NameGLX
                   /\ \/ req.OPCODE = 21
                      \/ /\ req.OPCODE = 17
                         /\ Len(bytes) >= 36
                         /\ bytes[33] = 4 /\ bytes[34] = 0
                         /\ bytes[35] = 1 /\ bytes[36] = 0

\* GLX opcode 17 whose 35 byte body ends in 04 00 01 was padded to 36
\* bytes and tagged
C18_Witness ==
    /\ last.op = "encode_request"
    /\ Encoded.EXTENSION = NameGLX /\ Encoded.OPCODE = 17
    /\ Len(Encoded.body) = 35
    /\ display.pending_requests[last.sequence].workaround

\* a submission of the driver in use has returned to its caller
Returned ==
    \/ driver = "sync" /\ last.op = "send_request" /\ last.res # "Blocked"
    \/ driver = "async" /\ last.op = "poll" /\ last.res # "Pending"

\* C19: in the synchronous driver, when the QueryExtension reply says
\* present = false, send_request_internal returns ExtensionNotPresent for
\* the name, no sequence number is taken and no byte written for the
\* primary request, and the registry gets no entry for the name.
C19_SyncAbsentAborts ==
    (driver = "sync" /\ Returned /\ hist.cur.qe_reply
        /\ ~hist.cur.qe_present) =>
    /\ last.res = "Err"
    /\ last.err = [kind |-> "ExtensionNotPresent",
                   name |-> hist.cur.extension]
    /\ hist.cur.primary_seq = <<>>
    /\ display.request_number = hist.cur.qe_seq[1] + 1
    /\ \A k \in 1..Len(conn.wire) : conn.wire[k][1] <= hist.cur.qe_seq[1]
    /\ string_as_array_bytes(hist.cur.extension) \notin DOMAIN display.extensions

\* C20: in both drivers a submission returns ExtensionNotPresent only
\* after a QueryExtension reply with present = false, and a connection
\* failure between the start of the QueryExtension round trip and its
\* reply is returned to the caller as the Io error.
C20_ErrorKinds ==
    /\ (Returned /\ last.res = "Err"
           /\ last.err.kind = "ExtensionNotPresent") =>
       (hist.cur.qe_reply /\ ~hist.cur.qe_present)
    /\ (Returned /\ last.obs.io_err /\ hist.cur.extension # NoExtension
           /\ ~hist.cur.cached /\ hist.cur.primary_seq = <<>>) =>
       (last.res = "Err" /\ last.err = IoError)

(***************************************************************************)
(* The XKB action codec (action.rs).  An Action is one of 21 variants,     *)
(* each holding an arm struct of auto::xkb; the arm carries its own        *)
(* SaType in its first field and is eight bytes on the wire.               *)
(***************************************************************************)
ACTION_SIZE == 8

\* the variants of Action and of SaType, in discriminant order (0..20)
SaTypes ==
    <<"NoAction", "SetMods", "LatchMods", "LockMods", "SetGroup",
      "LatchGroup", "LockGroup", "MovePtr", "PtrBtn", "LockPtrBtn",
      "SetPtrDflt", "IsoLock", "Terminate", "SwitchScreen", "SetControls",
      "LockControls", "ActionMessage", "RedirectKey", "DeviceBtn",
      "LockDeviceBtn", "DeviceValuator">>

\* SaType::as_bytes: the discriminant in one byte
SaType_as_bytes(ty) == (CHOOSE k \in 1..Len(SaTypes) : SaTypes[k] = ty) - 1

\* SaType::from_bytes: <<ty>>, or <<>> for no byte or an unknown discriminant
SaType_from_bytes(bytes) ==
    IF Len(bytes) >= 1 /\ bytes[1] + 1 \in 1..Len(SaTypes)
    THEN <<SaTypes[bytes[1] + 1]>>
    ELSE <<>>

\* the seven bytes after the type byte of each arm struct: "f" a field
\* byte, "p" a padding byte
ArmLayout(variant) ==
    CASE variant \in {"NoAction", "Terminate"} ->
             <<"p", "p", "p", "p", "p", "p", "p">>
      [] variant \in {"SetMods", "LatchMods", "LockMods"} ->
             <<"f", "f", "f", "f", "f", "p", "p">>
      [] variant \in {"SetGroup", "LatchGroup", "LockGroup", "SwitchScreen"} ->
             <<"f", "f", "p", "p", "p", "p", "p">>
      [] variant = "MovePtr" ->
             <<"f", "f", "f", "f", "f", "p", "p">>
      [] variant \in {"PtrBtn", "SetPtrDflt"} ->
             <<"f", "f", "f", "p", "p", "p", "p">>
      [] variant = "LockPtrBtn" ->
             <<"f", "p", "f", "p", "p", "p", "p">>
      [] variant \in {"SetControls", "LockControls"} ->
             <<"p", "p", "p", "f", "f", "p", "p">>
      [] variant = "DeviceBtn" ->
             <<"f", "f", "f", "f", "p", "p", "p">>
      [] variant = "LockDeviceBtn" ->
             <<"f", "p", "f", "f", "p", "p", "p">>
      [] OTHER -> <<"f", "f", "f", "f", "f", "f", "f">>

\* as_bytes of an arm struct: the type byte, then each field at its place;
\* padding bytes of the caller's buffer are stepped over.  The result is the
\* buffer and the number of bytes covered.
Arm_as_bytes(layout, arm, bytes) ==
    [bytes |-> [i \in 1..Len(bytes) |->
                   IF i = 1 THEN SaType_as_bytes(arm.ty)
                   ELSE IF i <= ACTION_SIZE /\ layout[i - 1] = "f"
                   THEN arm.fields[i - 1]
                   ELSE bytes[i]],
     len |-> 1 + Len(layout)]

\* from_bytes of an arm struct: <<[arm, len]>>, or <<>> when the type byte
\* does not decode or the buffer is short.  Padding is read as nothing.
Arm_from_bytes(layout, bytes) ==
    IF Len(bytes) < 1 + Len(layout) \/ SaType_from_bytes(bytes) = <<>>
    THEN <<>>
    ELSE <<[arm |-> [ty |-> SaType_from_bytes(bytes)[1],
                     fields |-> [k \in 1..Len(layout) |->
                                    IF layout[k] = "f" THEN bytes[k + 1]
                                    ELSE 0]],
            len |-> 1 + Len(layout)]>>

\* Action::size
size(action) == ACTION_SIZE

\* Action::as_bytes: the active arm's as_bytes
as_bytes(action, bytes) ==
    Arm_as_bytes(ArmLayout(action.variant), action.arm, bytes)

\* the LockMods arm of the match taken for LatchMods as well
from_bytes_LatchForLock(bytes) ==
    LET ty == SaType_from_bytes(bytes)
    IN  IF ty = <<>> THEN <<>>
        ELSE LET a == Arm_from_bytes(ArmLayout(ty[1]), bytes)
             IN  IF a = <<>> THEN <<>>
                 ELSE <<[this |-> [variant |-> IF ty[1] = "LockMods"
                                               THEN "LatchMods" ELSE ty[1],
                                   arm |-> a[1].arm],
                         len |-> ACTION_SIZE]>>

\* Action::from_bytes: the SaType read from the buffer selects the arm
from_bytes(bytes) ==
    LET ty == SaType_from_bytes(bytes)
    IN  IF ty = <<>> THEN <<>>
        ELSE LET a == Arm_from_bytes(ArmLayout(ty[1]), bytes)
             IN  IF a = <<>> THEN <<>>
                 ELSE <<[this |-> [variant |-> ty[1], arm |-> a[1].arm],
                         len |-> ACTION_SIZE]>>

\* field values of the generated actions start at these bytes
FieldBases == {0, 7, 250}

\* an arm struct of the layout of `variant` whose type field is ty and whose
\* field bytes count up from base
TestArm(variant, ty, base) ==
    [ty |-> ty,
     fields |-> [k \in 1..(ACTION_SIZE - 1) |->
                    IF ArmLayout(variant)[k] = "f" THEN (base + k) % 256
                    ELSE 0]]

\* bytes the caller's buffer holds before as_bytes writes into it
BufferFills == {0, 255}

\* the Action values the codec is applied to: every variant, holding an arm
\* whose type field names that variant
ActionValues ==
    { [kind |-> "value",
       action |-> [variant |-> SaTypes[v],
                   arm |-> TestArm(SaTypes[v], SaTypes[v], base)],
       fill |-> fill] :
          v \in 1..Len(SaTypes), base \in FieldBases, fill \in BufferFills }

\* first bytes of the buffers handed to from_bytes
RawTags == {0, 3, 20, 21, 22, 128, 255}

RawBuffers ==
    { [kind |-> "raw", bytes |-> <<t>> \o [k \in 1..(ACTION_SIZE - 1) |-> (base + k) % 256]] :
          t \in RawTags, base \in FieldBases }

InitAction ==
    /\ driver = "action"
    /\ display = InitDisplay
    /\ conn = [wire |-> <<>>, inq |-> <<>>, fdq |-> <<>>, mode |-> "open"]
    /\ server = [pos |-> 0, seq |-> 0]
    /\ sync \in {[pc |-> "idle", req |-> in, qseq |-> 0] :
                    in \in ActionValues \cup RawBuffers}
    /\ panic = "none"
    /\ last = NoLast
    /\ hist = [subs |-> 0, cur |-> NoSubmission, log |-> <<>>]

\* an Action is written into a buffer of size() bytes and read back
ActionRoundTrip ==
    /\ driver = "action"
    /\ sync.pc = "idle"
    /\ sync.req.kind = "value"
    /\ LET action == sync.req.action
           w == as_bytes(action, [k \in 1..size(action) |-> sync.req.fill])
       IN  last' = [op |-> "round_trip", res |-> "Ok", err |-> NoLast.err,
                    before |-> "Hole", obs |-> NoObs,
                    size |-> size(action), written |-> w.len,
                    bytes |-> w.bytes, decoded |-> from_bytes(w.bytes)]
    /\ sync' = [sync EXCEPT !.pc = "done"]
    /\ UNCHANGED <<driver, display, conn, server, panic, hist>>

\* Action::from_bytes on a buffer that did not come from as_bytes
ActionDecode ==
    /\ driver = "action"
    /\ sync.pc = "idle"
    /\ sync.req.kind = "raw"
    /\ last' = [op |-> "from_bytes", res |-> "Ok", err |-> NoLast.err,
                before |-> "Hole", obs |-> NoObs,
                bytes |-> sync.req.bytes,
                decoded |-> from_bytes(sync.req.bytes)]
    /\ sync' = [sync EXCEPT !.pc = "done"]
    /\ UNCHANGED <<driver, display, conn, server, panic, hist>>

NextAction ==
    \/ ActionRoundTrip
    \/ ActionDecode

SpecAction == InitAction /\ [][NextAction]_vars

FormatDecimal(n) ==
    IF n < 10 THEN <<n>>
    ELSE IF n < 100 THEN <<n \div 10, n % 10>>
    ELSE <<n \div 100, (n \div 10) % 10, n % 10>>

\* int_litexpr: the integer literal with these digits, as the compiler
\* reads it
int_litexpr(digits) ==
    CASE Len(digits) = 1 -> digits[1]
      [] Len(digits) = 2 -> digits[1] * 10 + digits[2]
      [] OTHER -> digits[1] * 100 + digits[2] * 10 + digits[3]

\* xstruct::xstruct: the struct of that name built from the elements and
\* its codec impl, or a failure (here: for the name the schema state
\* rejects)
xstruct(name, children, rejects) ==
    IF name = rejects
    THEN [ok |-> FALSE, items |-> <<>>]
    ELSE [ok |-> TRUE,
          items |-> <<[item |-> "Struct", ident |-> name,
                       built_from |-> children],
                      [item |-> "Impl", trait_ |-> "AsByteSequence",
                       self_ty |-> name]>>]

\* the unit type ()
UnitType == "()"

\* xrequest_impl: impl Request for <name> with type Reply and fn opcode
xrequest_impl(name, opcode, reply_name) ==
    [item |-> "Impl", trait_ |-> "Request", self_ty |-> name,
     Reply |-> IF reply_name # <<>> THEN reply_name[1] ELSE UnitType,
     opcode |-> [output |-> "Byte",
                 expr |-> int_litexpr(FormatDecimal(opcode))]]

\* children.iter().rposition(|x| x.name == "reply"): <<>> or the last such
\* index
rposition_reply(children) ==
    LET ps == {p \in 1..Len(children) : children[p].name = "reply"}
    IN  IF ps = {} THEN <<>>
        ELSE <<CHOOSE p \in ps : \A q \in ps : q <= p>>

\* Vec::remove
Remove(s, p) == SubSeq(s, 1, p - 1) \o SubSeq(s, p + 1, Len(s))

\* xrequest: Ok with the items, or the failure of xstruct
xrequest(name, opcode, children, rejects) ==
    LET p == rposition_reply(children)
        reply == IF p = <<>> THEN <<>> ELSE <<children[p[1]]>>
        rest == IF p = <<>> THEN children ELSE Remove(children, p[1])
        request_name == name \o "Request"
        reply_name == name \o "Reply"
        request_items == xstruct(request_name, rest, rejects)
        reply_items == IF reply # <<>>
                       THEN xstruct(reply_name, reply[1].children, rejects)
                       ELSE [ok |-> TRUE, items |-> <<>>]
    IN  IF ~request_items.ok \/ ~reply_items.ok
        THEN [ok |-> FALSE, items |-> <<>>]
        ELSE [ok |-> TRUE,
              items |-> request_items.items \o reply_items.items \o
                        <<xrequest_impl(request_name, opcode,
                              IF reply # <<>> THEN <<reply_name>> ELSE <<>>)>>]

\* longest list of children of a generated <request> element
MaxChildren == 3

\* the child elements of the generated requests: two fields, padding, and
\* <reply> elements with and without children
TestElements ==
    { [name |-> "field", attr |-> "a", children |-> <<>>],
      [name |-> "pad", attr |-> "4", children |-> <<>>],
      [name |-> "reply", attr |-> "",
       children |-> <<[name |-> "field", attr |-> "r", children |-> <<>>]>>],
      [name |-> "reply", attr |-> "", children |-> <<>>] }

\* the <request> elements xrequest is applied to: name, opcode, children
\* and the struct name the schema state rejects ("" for none)
XrequestInputs ==
    { [name |-> "GetThing", opcode |-> opcode, children |-> ch,
       rejects |-> rej] :
          opcode \in {7, 43, 255},
          ch \in UNION {[1..n -> TestElements] : n \in 0..MaxChildren},
          rej \in {"", "GetThingRequest", "GetThingReply"} }

InitXrequest ==
    /\ driver = "xrequest"
    /\ display = InitDisplay
    /\ conn = [wire |-> <<>>, inq |-> <<>>, fdq |-> <<>>, mode |-> "open"]
    /\ server = [pos |-> 0, seq |-> 0]
    /\ sync \in {[pc |-> "idle", req |-> in, qseq |-> 0] :
                    in \in XrequestInputs}
    /\ panic = "none"
    /\ last = NoLast
    /\ hist = [subs |-> 0, cur |-> NoSubmission, log |-> <<>>]

\* xrequest applied to the element drawn
Xrequest ==
    /\ driver = "xrequest"
    /\ sync.pc = "idle"
    /\ \E r \in {xrequest(sync.req.name, sync.req.opcode, sync.req.children,
                          sync.req.rejects)} :
           last' = [op |-> "xrequest", res |-> IF r.ok THEN "Ok" ELSE "Err",
                    err |-> NoLast.err, before |-> "Hole", obs |-> NoObs,
                    items |-> r.items]
    /\ sync' = [sync EXCEPT !.pc = "done"]
    /\ UNCHANGED <<driver, display, conn, server, panic, hist>>

NextXrequest == Xrequest

SpecXrequest == InitXrequest /\ [][NextXrequest]_vars

\* C22: for any list of children, the items xrequest returns are, in order,
\* the items of the <Name>Request struct, the items of the <Name>Reply
\* struct when a reply child exists, and exactly one Request impl, whose
\* Reply type is <Name>Reply when a reply child exists and the unit type
\* otherwise and whose opcode() body is the given opcode; no reply child is
\* among the elements the request struct is built from.
C22_XrequestItems ==
    (last.op = "xrequest" /\ last.res = "Ok") =>
    LET in == sync.req
        items == last.items
        has == \E k \in 1..Len(in.children) : in.children[k].name = "reply"
        idents == [k \in 1..(Len(items) - 1) |->
                      IF items[k].item = "Struct" THEN items[k].ident
                      ELSE items[k].self_ty]
        impl == items[Len(items)]
    IN  /\ Len(items) = IF has THEN 5 ELSE 3
        /\ \A k \in 1..(Len(items) - 1) : items[k].item = "Struct"
               \/ items[k].trait_ # "Request"
        /\ idents = IF has
                    THEN <<"GetThingRequest", "GetThingRequest",
                           "GetThingReply", "GetThingReply">>
                    ELSE <<"GetThingRequest", "GetThingRequest">>
        /\ impl.item = "Impl" /\ impl.trait_ = "Request"
        /\ impl.self_ty = "GetThingRequest"
        /\ impl.Reply = IF has THEN "GetThingReply" ELSE UnitType
        /\ impl.opcode.expr = in.opcode
        /\ \A k \in 1..Len(items[1].built_from) :
               items[1].built_from[k].name # "reply"

\* s is a prefix of t
IsPrefix(s, t) == Len(s) <= Len(t) /\ s = Take(t, Len(s))

\* the bytes of the request of a submission as they are to go on the wire:
\* the encoded request with the opcode bytes written
ExpectedBytes(e) ==
    LET sarr == string_as_array_bytes(e.extension)
        ext == IF e.extension = NoExtension THEN <<>>
               ELSE IF sarr \in DOMAIN display.extensions
               THEN <<display.extensions[sarr]>>
               ELSE ServerGlxOpcode
    IN  modify_for_opcode(from_request(RequestOf(e)).data, e.opcode, ext)

\* C23: in the async driver, whatever prefixes the connection accepts, the
\* bytes handed to it for one request (the QueryExtension sub-request or
\* the user's request) are at every moment a prefix of the encoded request
\* with its opcode written, and the whole of it once the submission has
\* returned Ok: no byte is sent twice or skipped and the opcode is written
\* once, before the first byte.
C23_PartialSendsExact ==
    driver = "async" =>
    \A i \in 1..Len(Submissions) :
        LET e == Submissions[i]
        IN  /\ e.qe_seq # <<>> =>
                  /\ IsPrefix(OwnedBytes(e.qe_seq[1]),
                              QueryExtensionBytes(e.extension))
                  /\ e.qe_sent => OwnedBytes(e.qe_seq[1]) =
                                      QueryExtensionBytes(e.extension)
            /\ e.primary_seq # <<>> =>
                  /\ IsPrefix(OwnedBytes(e.primary_seq[1]), ExpectedBytes(e))
                  /\ e.res = "Ok" =>
                         OwnedBytes(e.primary_seq[1]) = ExpectedBytes(e)

\* a poll has returned Pending with the first bytes of the eight byte GLX
\* request on the wire and the rest still in the inner buffer
C23_Witness ==
    /\ driver = "async"
    /\ last.op = "poll" /\ last.res = "Pending"
    /\ display.send_buffer.tag = "Init"
    /\ hist.cur.extension = NameGLX
    /\ hist.cur.primary_seq # <<>>
    /\ OwnedBytes(hist.cur.primary_seq[1]) # <<>>
    /\ display.send_buffer.inner[1].request.data # <<>>
    /\ Len(OwnedBytes(hist.cur.primary_seq[1]))
           + Len(display.send_buffer.inner[1].request.data) = 8
    /\ display.send_buffer.inner[1].impl_opcode.implemented

\* the bytes of the frames yielded so far, in order
RECURSIVE YieldedData(_)
YieldedData(ys) ==
    IF ys = <<>> THEN <<>> ELSE ys[1].data \o YieldedData(Tail(ys))

\* the file descriptors returned with the frames yielded so far, in order
RECURSIVE YieldedFds(_)
YieldedFds(ys) ==
    IF ys = <<>> THEN <<>> ELSE ys[1].fds \o YieldedFds(Tail(ys))

\* the additional-byte count of a frame header, 0 for none
AdditionalCount(bytes) ==
    IF additional_bytes(Take(bytes, 8)) = <<>> THEN 0
    ELSE additional_bytes(Take(bytes, 8))[1]

\* C24: however the incoming bytes are split into reads, every frame a
\* wait buffer yields has 32 bytes plus the additional-byte count of its
\* header; the frames yielded, the bytes the wait buffer holds before its
\* cursor and the bytes not yet read are, in this order, the bytes the
\* connection delivered (so bytes read before a Pending stay in place); the
\* same holds for the file descriptors; and the buffer has 32 bytes while
\* first_read is true and 32 plus the additional bytes afterwards.
C24_WaitFramesWhole ==
    driver = "wait" =>
    LET wb == IF display.wait_buffer = <<>> THEN DefaultWaitBuffer
              ELSE display.wait_buffer[1]
        held == IF wb.complete THEN <<>> ELSE Take(wb.buffer, wb.cursor)
        heldfds == IF wb.complete THEN <<>> ELSE wb.fds
    IN  /\ \A i \in 1..Len(hist.yielded) :
               Len(hist.yielded[i].data) =
                   32 + AdditionalCount(hist.yielded[i].data)
        /\ ~hist.failed =>
               /\ YieldedData(hist.yielded) \o held \o conn.inq = hist.fed
               /\ YieldedFds(hist.yielded) \o heldfds \o conn.fdq = hist.fed_fds
        /\ ~wb.complete =>
               IF wb.first_read
               THEN Len(wb.buffer) = 32 /\ wb.cursor < 32
               ELSE /\ AdditionalCount(wb.buffer) > 0
                    /\ Len(wb.buffer) = 32 + AdditionalCount(wb.buffer)
                    /\ wb.cursor >= 32 /\ wb.cursor < Len(wb.buffer)

\* a frame of 40 bytes has been yielded with two file descriptors, by a
\* wait buffer that returned Pending in the middle of the additional bytes
C24_Witness ==
    /\ driver = "wait"
    /\ last.op = "poll_wait" /\ last.res = "Ok"
    /\ last.obs.hdrs = <<>>
    /\ hist.yielded # <<>>
    /\ Len(hist.yielded[Len(hist.yielded)].data) = 40
    /\ hist.yielded[Len(hist.yielded)].fds = <<1, 2>>
    /\ ~hist.failed

(***************************************************************************)
(* The async driver with a caller that keeps polling a filled send buffer, *)
(* over a connection that may be slow but does not fail, and a server that *)
(* answers every request.                                                  *)
(***************************************************************************)
\* the send buffer holds a submission whose poll has not returned Ready
Filled ==
    /\ driver = "async"
    /\ display.send_buffer.tag \in {"Uninit", "PollingForExt",
                                    "WaitingForExt", "Init"}
    /\ hist.cur.n # 0
    /\ hist.cur.res = "none"

InitLive == Init /\ driver = "async"

\* the caller submits only into a Hole
LiveFill(req) == display.send_buffer.tag = "Hole" /\ FillHole(req)

\* the caller polls the submission in progress
LivePoll == Filled /\ PollSendRequest

NextLive ==
    \/ \E req \in UserRequests : LiveFill(req)
    \/ LivePoll
    \/ DigHole
    \/ PollWait
    \/ ServerStep
    \/ \E m \in {"open", "slow"} : SetMode(m)

SpecLive ==
    InitLive /\ [][NextLive]_vars /\ WF_vars(LivePoll) /\ WF_vars(ServerStep)

\* C25: over a connection that accepts the bytes offered and delivers the
\* server's replies, repeated polling of a filled send buffer leads to a
\* poll that returns Ready, with the descriptor or with an error.
C25_PollingReachesReady ==
    Filled ~> (hist.cur.res \in {"Ok", "Err"})

\* the frames the wait polls of the last operation yielded, in order
RECURSIVE FramesYielded(_)
FramesYielded(polls) ==
    IF polls = <<>> THEN <<>>
    ELSE (IF polls[1].res = "Ok" THEN <<polls[1].data>> ELSE <<>>)
             \o FramesYielded(Tail(polls))

\* C26: in a poll that passes through WaitingForExt, the frames the wait
\* buffer yields are the frames given to process_bytes, each once and in
\* order; a wait that returns Pending ends the poll with the wait buffer
\* and its bytes kept in WaitingForExt; and WaitingForExt is left only
\* with the sub-request's reply taken from the pending replies or with an
\* error.
C26_WaitingForExtFrames ==
    (driver = "async" /\ last.op = "poll"
        /\ (last.before = "WaitingForExt" \/ last.obs.wait_polls # <<>>)) =>
    LET polls == last.obs.wait_polls
        n == Len(polls)
    IN  /\ last.obs.processed = FramesYielded(polls)
        /\ \A i \in 1..(n - 1) : polls[i].res = "Ok"
        /\ (n > 0 /\ polls[n].res = "Pending") =>
               /\ last.res = "Pending"
               /\ display.send_buffer.tag = "WaitingForExt"
               /\ display.send_buffer.wait_buffer = <<polls[n].now>>
               /\ display.send_buffer.sub_seq = ToU16(hist.cur.qe_seq[1])
        /\ display.send_buffer.tag # "WaitingForExt" =>
               \/ /\ hist.cur.qe_reply
                  /\ ToU16(hist.cur.qe_seq[1]) \notin DOMAIN display.pending_replies
               \/ last.res \in {"Err", "Panic"}
        /\ display.send_buffer.tag = "WaitingForExt" => ~hist.cur.qe_reply

\* a poll in WaitingForExt has read two frames or more, the QueryExtension
\* reply last, given each to process_bytes and left the state
C26_Witness ==
    /\ driver = "async"
    /\ last.op = "poll" /\ last.before = "WaitingForExt"
    /\ Len(last.obs.processed) >= 2
    /\ last.obs.processed = FramesYielded(last.obs.wait_polls)
    /\ hist.cur.qe_reply
    /\ display.send_buffer.tag = "Init"

\* C27: a poll of the send buffer that returns Pending leaves the buffer in
\* PollingForExt or WaitingForExt, holding the request as it was submitted,
\* or in Init, holding the numbered request with the bytes not yet sent;
\* and the connection was called in that poll and it was the connection
\* that returned Pending: either bytes remain unsent in the inner buffer or
\* the last read of the wait buffer was Pending.
C27_PendingKeepsSubmission ==
    (driver = "async" /\ last.op = "poll" /\ last.res = "Pending") =>
    LET sb == display.send_buffer
        original == from_request(RequestOf(hist.cur))
        polls == last.obs.wait_polls
    IN  /\ sb.tag \in {"PollingForExt", "WaitingForExt", "Init"}
        /\ sb.tag \in {"PollingForExt", "WaitingForExt"} => sb.req = original
        /\ sb.tag = "Init" =>
               LET request == sb.inner[1].request
               IN  /\ request.opcode = original.opcode
                   /\ request.extension = original.extension
                   /\ request.sequence = hist.cur.primary_seq
                   /\ OwnedBytes(request.sequence[1]) \o request.data
                          = ExpectedBytes(hist.cur)
        /\ last.obs.conn_called
        /\ \/ sb.tag \in {"PollingForExt", "Init"}
              /\ sb.inner[1].request.data # <<>>
           \/ sb.tag = "WaitingForExt"
              /\ polls # <<>> /\ polls[Len(polls)].res = "Pending"
        /\ hist.cur.res = "none"
        /\ panic = "none"

\* a poll has returned Pending while the reply to the QueryExtension was
\* partly read, the GLX request kept in WaitingForExt
C27_Witness ==
    /\ driver = "async"
    /\ last.op = "poll" /\ last.res = "Pending"
    /\ display.send_buffer.tag = "WaitingForExt"
    /\ display.send_buffer.req = from_request(GetFBConfigs)
    /\ display.send_buffer.wait_buffer # <<>>
    /\ display.send_buffer.wait_buffer[1].cursor > 0

\* C28: no poll of the send buffer polls a wait buffer whose completion flag
\* is set.  Within one poll the first read uses the wait buffer kept in
\* WaitingForExt or a new one, every later read follows a read that
\* returned Ready with a frame and uses a new wait buffer; the wait buffer
\* kept in WaitingForExt is one that returned Pending and its flag is unset;
\* so no poll ends in the panic "polled past completion".
C28_NeverPollsPastCompletion ==
    /\ (display.send_buffer.tag = "WaitingForExt"
            /\ display.send_buffer.wait_buffer # <<>>) =>
           ~display.send_buffer.wait_buffer[1].complete
    /\ (driver = "async" /\ last.op = "poll") =>
           LET polls == last.obs.wait_polls
               n == Len(polls)
           IN  /\ \A i \in 1..n :
                      /\ ~polls[i].before
                      /\ ~polls[i].was.complete
                      /\ polls[i].res # "Panic"
                      /\ i > 1 => /\ polls[i - 1].res = "Ok"
                                  /\ polls[i - 1].after
                                  /\ polls[i].was = DefaultWaitBuffer
                      /\ (i = n /\ polls[i].res = "Pending") =>
                             /\ ~polls[i].now.complete
                             /\ display.send_buffer.wait_buffer
                                    = <<polls[i].now>>
                      /\ (i = n /\ polls[i].res # "Pending") =>
                             ~(display.send_buffer.tag = "WaitingForExt"
                                   /\ display.send_buffer.wait_buffer # <<>>)
               /\ panic # "Attempted to poll wait buffer past completion"

\* a poll resumed a wait buffer that had returned Pending, that wait buffer
\* then yielded a frame which was not the awaited reply, and the next read
\* was made with a new wait buffer
C28_Witness ==
    /\ driver = "async"
    /\ last.op = "poll"
    /\ Len(last.obs.wait_polls) >= 2
    /\ last.obs.wait_polls[1].was.cursor > 0
    /\ last.obs.wait_polls[1].res = "Ok"
    /\ last.obs.wait_polls[1].now.complete
    /\ last.obs.wait_polls[2].was = DefaultWaitBuffer

====
